---- MODULE Spec2Model ----
(***************************************************************************)
(* A state-machine model of SceneManager (src/Source/SceneManager.cpp):    *)
(* the texture table, the materials list, the shader's uniform store, the  *)
(* part of the OpenGL state the class drives, and the fixed render pass.   *)
(*                                                                         *)
(* Conventions                                                             *)
(*   - every float of the source is kept in thousandths (0.4f is 400);     *)
(*   - a uniform's value is a tuple of such numbers: a bool or an int is   *)
(*     <<0>> or <<1>> or <<n>>, a vec3 is <<x, y, z>>;                     *)
(*   - a uniform's name is split at its dot: "material.shininess" is       *)
(*     <<"material", "shininess">>, "model" is <<"model">>;                *)
(*   - every method is an operator from program state to program state     *)
(*     (a record whose fields are the variables below), so that a method   *)
(*     that calls other methods is the composition of their operators;     *)
(*     an action commits the state its operator returns.                   *)
(***************************************************************************)
EXTENDS Integers, Sequences, FiniteSets, TLC

VARIABLES
  m_pShaderManager,   \* "NULL" or "ShaderManager"
  nullCalls,          \* what this build does on a method call through a null pointer
  m_loadedTextures,   \* int m_loadedTextures
  m_textureIDs,       \* TEXTURE_INFO m_textureIDs[MaxSlots]: index -> [ID, tag]
  overrun,            \* what stores past the end of m_textureIDs left behind it
  m_objectMaterials,  \* std::vector<OBJECT_MATERIAL>
  shader,             \* the ShaderManager's uniforms: name -> value
  meshLoads,          \* the ShapeMeshes Load*Mesh calls made so far, in order
  glTextures,         \* GL texture names generated and not deleted
  glNextName,         \* the next unused GL texture name
  glActiveUnit,       \* the active texture unit (glActiveTexture)
  glBoundUnits,       \* texture unit -> the name bound to its GL_TEXTURE_2D target
  disk,               \* image file -> the channel count stbi_load decodes (0: no image)
  crashed,            \* the process died (a null dereference, a wild store)
  trace,              \* the calls the last handler made, in order
  decodes,            \* the stbi_load calls the last handler made
  drawLog,            \* the draw calls of the last RenderScene, in order
  shaderLog,          \* the set*Value calls the last handler made on the shader manager
  ret,                \* the boolean the last CreateGLTexture or FindMaterial returned
  last,               \* the last handler run and its arguments and result
  calls               \* how many state-growing handlers have run

vars ==
  << m_pShaderManager, nullCalls, m_loadedTextures, m_textureIDs, overrun, m_objectMaterials,
     shader, meshLoads, glTextures, glNextName, glActiveUnit, glBoundUnits, disk,
     crashed, trace, decodes, drawLog, shaderLog, ret, last, calls >>

----------------------------------------------------------------------------
(* Bounds of the model *)

\* State-growing handlers (loads, PrepareScene, DestroyGLTextures,
\* DefineObjectMaterials) run in one behaviour.
MaxCalls == 3

(* Program constants *)

\* "There are up to 16 slots": the size of m_textureIDs.
MaxSlots == 16

----------------------------------------------------------------------------
(* The image files and the tags *)

\* Mutant of SceneTextures: the chain image is not among the loads.
SceneTextures_WithoutChain ==
  << <<"textures/marble.jpg", "marble">>,
     <<"textures/gold.jpg", "gold">>,
     <<"textures/versace.jpg", "versace">>,
     <<"textures/blue_glass.jpg", "blue_glass">>,
     <<"textures/perfume.jpg", "perfume">>,
     <<"textures/gray_felt.jpg", "gray_felt">>,
     <<"textures/black_felt.jpg", "black_felt">>,
     <<"textures/green_felt.jpg", "green_felt">>,
     <<"textures/peach_felt.jpg", "peach_felt">>,
     <<"textures/white_leather.jpg", "white_leather">>,
     <<"textures/brown_leather.jpg", "brown_leather">> >>

\* LoadSceneTextures' twelve loads, in call order: <<file, tag>>.
SceneTextures ==
  << <<"textures/marble.jpg", "marble">>,
     <<"textures/gold.jpg", "gold">>,
     <<"textures/versace.jpg", "versace">>,
     <<"textures/blue_glass.jpg", "blue_glass">>,
     <<"textures/perfume.jpg", "perfume">>,
     <<"textures/gray_felt.jpg", "gray_felt">>,
     <<"textures/black_felt.jpg", "black_felt">>,
     <<"textures/green_felt.jpg", "green_felt">>,
     <<"textures/peach_felt.jpg", "peach_felt">>,
     <<"textures/white_leather.jpg", "white_leather">>,
     <<"textures/brown_leather.jpg", "brown_leather">>,
     <<"textures/chain.jpg", "gold_chain">> >>

SceneFiles == {SceneTextures[i][1] : i \in 1..Len(SceneTextures)}
SceneTags == {SceneTextures[i][2] : i \in 1..Len(SceneTextures)}

\* Image files that are no part of the scene, for direct CreateGLTexture
\* calls: an RGBA image, a single-channel image, and no image at all.
RgbaFile == "textures/logo.png"
GrayFile == "textures/gray.png"
MissingFile == "textures/missing.jpg"
Files == SceneFiles \cup {RgbaFile, GrayFile, MissingFile}

\* The <<file, tag>> pairs a direct CreateGLTexture call is made with: tags
\* that repeat a scene tag and tags that do not.
CallArgs ==
  { <<"textures/marble.jpg", "marble">>,
    <<"textures/marble.jpg", "logo">>,
    <<RgbaFile, "logo">>,
    <<GrayFile, "marble">>,
    <<MissingFile, "logo">> }

\* The tags FindTextureSlot is asked for: the first and the last scene tag, and
\* a tag only a direct call registers.
FindTags == {"marble", "gold_chain", "logo"}

\* What stbi_load makes of a file: 0 stands for NULL (no image), otherwise the
\* number of colour channels of the decoded image.
NoImage == 0

----------------------------------------------------------------------------
(* Program state as a record *)

State ==
  [ m_pShaderManager |-> m_pShaderManager,
    nullCalls |-> nullCalls,
    m_loadedTextures |-> m_loadedTextures,
    m_textureIDs |-> m_textureIDs,
    overrun |-> overrun,
    m_objectMaterials |-> m_objectMaterials,
    shader |-> shader,
    meshLoads |-> meshLoads,
    glTextures |-> glTextures,
    glNextName |-> glNextName,
    glActiveUnit |-> glActiveUnit,
    glBoundUnits |-> glBoundUnits,
    disk |-> disk,
    crashed |-> crashed,
    trace |-> trace,
    decodes |-> decodes,
    drawLog |-> drawLog,
    shaderLog |-> shaderLog,
    ret |-> ret ]

\* The state a handler starts from: its own trace and counters are empty.
Entry == [State EXCEPT !.trace = <<>>, !.decodes = 0, !.shaderLog = <<>>]

Commit(s) ==
  /\ m_pShaderManager' = s.m_pShaderManager
  /\ nullCalls' = s.nullCalls
  /\ m_loadedTextures' = s.m_loadedTextures
  /\ m_textureIDs' = s.m_textureIDs
  /\ overrun' = s.overrun
  /\ m_objectMaterials' = s.m_objectMaterials
  /\ shader' = s.shader
  /\ meshLoads' = s.meshLoads
  /\ glTextures' = s.glTextures
  /\ glNextName' = s.glNextName
  /\ glActiveUnit' = s.glActiveUnit
  /\ glBoundUnits' = s.glBoundUnits
  /\ disk' = s.disk
  /\ crashed' = s.crashed
  /\ trace' = s.trace
  /\ decodes' = s.decodes
  /\ drawLog' = s.drawLog
  /\ shaderLog' = s.shaderLog
  /\ ret' = s.ret

Called(s, name) == [s EXCEPT !.trace = Append(@, name)]

\* The record of the last handler.
Last(op, file, tag, slot) ==
  [op |-> op, file |-> file, tag |-> tag, slot |-> slot, args |-> <<>>]

\* The same for a handler whose arguments are numbers.
LastArgs(op, args) == [op |-> op, file |-> "", tag |-> "", slot |-> -1, args |-> args]

----------------------------------------------------------------------------
(* OpenGL: texture names and texture units *)

\* glGenTextures(1, &id): a name not in use.
GlGenTextures(s) ==
  [s EXCEPT !.glTextures = @ \cup {s.glNextName}, !.glNextName = @ + 1]

\* glActiveTexture(GL_TEXTURE0 + unit)
GlActiveTexture(s, unit) == [s EXCEPT !.glActiveUnit = unit]

\* glBindTexture(GL_TEXTURE_2D, id): on the active unit.
GlBindTexture(s, id) ==
  [s EXCEPT !.glBoundUnits = (s.glActiveUnit :> id) @@ s.glBoundUnits]

----------------------------------------------------------------------------
(* The texture table *)

\* An array slot nobody stored to.
EmptySlot == [ID |-> 0, tag |-> ""]

\* What a store past the end of the array does: it lands in the memory behind
\* the array, or the process dies.
UBOutcomes == {"lands", "crash"}

\* m_textureIDs[index], also past the end of the array (what an earlier store
\* left there).
TextureInfo(s, index) ==
  IF index < MaxSlots THEN s.m_textureIDs[index]
  ELSE s.overrun[index - MaxSlots + 1]

\* m_textureIDs[index] = info. The array has MaxSlots elements and the source
\* checks no index.
StoreTextureInfo(s, index, info, ub) ==
  IF index < MaxSlots THEN [s EXCEPT !.m_textureIDs[index] = info]
  ELSE IF ub = "crash" THEN [s EXCEPT !.crashed = TRUE]
  ELSE LET k == index - MaxSlots + 1
       IN [s EXCEPT !.overrun =
             IF k <= Len(@) THEN [@ EXCEPT ![k] = info] ELSE Append(@, info)]

\* Mutant of ChannelsSupported: every decoded image is uploaded and registered.
ChannelsSupported_AnyImage(colorChannels) == colorChannels >= 1

\* "if the loaded image is in RGB format ... RGBA format": the channel counts
\* CreateGLTexture uploads.
ChannelsSupported(colorChannels) == colorChannels = 3 \/ colorChannels = 4

CreateGLTextureOp(s, filename, tag, ub) ==
  IF s.crashed THEN s
  ELSE
    LET s0 == [Called(s, "CreateGLTexture") EXCEPT !.decodes = @ + 1]
        colorChannels == s0.disk[filename]
    IN IF colorChannels = NoImage THEN [s0 EXCEPT !.ret = FALSE]
       ELSE
         LET textureID == s0.glNextName
             s1 == GlBindTexture(GlGenTextures(s0), textureID)
         IN IF ~ChannelsSupported(colorChannels) THEN [s1 EXCEPT !.ret = FALSE]
            ELSE
              LET s2 == GlBindTexture(s1, 0)
                  s3 == StoreTextureInfo(s2, s2.m_loadedTextures,
                                         [ID |-> textureID, tag |-> tag], ub)
              IN IF s3.crashed THEN s3
                 ELSE [s3 EXCEPT !.m_loadedTextures = @ + 1, !.ret = TRUE]

RECURSIVE BindLoop(_, _)
BindLoop(s, i) ==
  IF i < s.m_loadedTextures
  THEN LET s1 == GlBindTexture(GlActiveTexture(s, i), TextureInfo(s, i).ID)
       IN IF s1.crashed THEN s1 ELSE BindLoop(s1, i + 1)
  ELSE s

BindGLTexturesOp(s) ==
  IF s.crashed THEN s ELSE BindLoop(Called(s, "BindGLTextures"), 0)

RECURSIVE DestroyLoop(_, _, _)
DestroyLoop(s, i, ub) ==
  IF s.crashed \/ ~(i < s.m_loadedTextures) THEN s
  ELSE LET fresh == s.glNextName
           info == [TextureInfo(s, i) EXCEPT !.ID = fresh]
       IN DestroyLoop(StoreTextureInfo(GlGenTextures(s), i, info, ub), i + 1, ub)

\* The loop calls glGenTextures, not glDeleteTextures, on every used slot.
DestroyGLTexturesOp(s, ub) ==
  IF s.crashed THEN s ELSE DestroyLoop(Called(s, "DestroyGLTextures"), 0, ub)

RECURSIVE FindSlotLoop(_, _, _)
FindSlotLoop(s, tag, index) ==
  IF index < s.m_loadedTextures
  THEN IF TextureInfo(s, index).tag = tag THEN index
       ELSE FindSlotLoop(s, tag, index + 1)
  ELSE -1

\* Mutant of FindTextureSlot: the scan does not stop at the first match.
FindTextureSlot_LastMatch(s, tag) ==
  LET hits == {i \in 0..(s.m_loadedTextures - 1) : TextureInfo(s, i).tag = tag}
  IN IF hits = {} THEN -1 ELSE CHOOSE i \in hits : \A j \in hits : j <= i

FindTextureSlot(s, tag) == FindSlotLoop(s, tag, 0)

RECURSIVE FindIDLoop(_, _, _)
FindIDLoop(s, tag, index) ==
  IF index < s.m_loadedTextures
  THEN IF TextureInfo(s, index).tag = tag THEN TextureInfo(s, index).ID
       ELSE FindIDLoop(s, tag, index + 1)
  ELSE -1

FindTextureID(s, tag) == FindIDLoop(s, tag, 0)

RECURSIVE LoadLoop(_, _, _)
LoadLoop(s, i, ub) ==
  IF i > Len(SceneTextures) THEN s
  ELSE LET s1 == CreateGLTextureOp(s, SceneTextures[i][1], SceneTextures[i][2], ub)
       IN IF s1.crashed THEN s1 ELSE LoadLoop(s1, i + 1, ub)

\* Mutant of LoadSceneTexturesOp: the first failed load ends the loading.
RECURSIVE LoadLoop_StopsAtFailure(_, _, _)
LoadLoop_StopsAtFailure(s, i, ub) ==
  IF i > Len(SceneTextures) THEN s
  ELSE LET s1 == CreateGLTextureOp(s, SceneTextures[i][1], SceneTextures[i][2], ub)
       IN IF s1.ret = FALSE THEN s1 ELSE LoadLoop_StopsAtFailure(s1, i + 1, ub)

LoadSceneTexturesOp_StopsAtFailure(s, ub) ==
  IF s.crashed THEN s
  ELSE BindGLTexturesOp(LoadLoop_StopsAtFailure(Called(s, "LoadSceneTextures"), 1, ub))

\* Twelve loads, each return value dropped, then BindGLTextures.
LoadSceneTexturesOp(s, ub) ==
  IF s.crashed THEN s
  ELSE BindGLTexturesOp(LoadLoop(Called(s, "LoadSceneTextures"), 1, ub))

----------------------------------------------------------------------------
(* glm: 4x4 matrices in thousandths, a matrix being its four rows *)

\* cos and sin of the angles (thousandths of a degree) the model uses, in
\* thousandths: exact at the quarter turns, rounded elsewhere.
TrigTable ==
  -90000 :> <<0, -1000>> @@
  -60000 :> <<500, -866>> @@
  -45000 :> <<707, -707>> @@
  -25000 :> <<906, -423>> @@
  -20000 :> <<940, -342>> @@
  -15000 :> <<966, -259>> @@
  0 :> <<1000, 0>> @@
  500 :> <<1000, 9>> @@
  750 :> <<1000, 13>> @@
  1000 :> <<1000, 17>> @@
  1500 :> <<1000, 26>> @@
  2000 :> <<999, 35>> @@
  2500 :> <<999, 44>> @@
  3000 :> <<999, 52>> @@
  3500 :> <<998, 61>> @@
  4000 :> <<998, 70>> @@
  5000 :> <<996, 87>> @@
  15000 :> <<966, 259>> @@
  20000 :> <<940, 342>> @@
  55000 :> <<574, 819>> @@
  70000 :> <<342, 940>> @@
  90000 :> <<0, 1000>> @@
  105000 :> <<-259, 966>> @@
  107000 :> <<-292, 956>> @@
  180000 :> <<-1000, 0>> @@
  270000 :> <<0, -1000>>

Cos(degrees) == TrigTable[degrees][1]
Sin(degrees) == TrigTable[degrees][2]

\* x units in thousandths.
Milli(x) == x * 1000

One == Milli(1)

\* One entry of a product of two matrices, in fixed point.
MatEntry(a, b, i, j) ==
  (a[i][1] * b[1][j] + a[i][2] * b[2][j] + a[i][3] * b[3][j] + a[i][4] * b[4][j])
    \div One

MatRow(a, b, i) ==
  <<MatEntry(a, b, i, 1), MatEntry(a, b, i, 2), MatEntry(a, b, i, 3), MatEntry(a, b, i, 4)>>

\* glm's operator* on mat4.
MatMul(a, b) == <<MatRow(a, b, 1), MatRow(a, b, 2), MatRow(a, b, 3), MatRow(a, b, 4)>>

\* glm::scale(v)
GlmScale(v) ==
  << <<v[1], 0, 0, 0>>,
     <<0, v[2], 0, 0>>,
     <<0, 0, v[3], 0>>,
     <<0, 0, 0, One>> >>

\* glm::translate(v)
GlmTranslate(v) ==
  << <<One, 0, 0, v[1]>>,
     <<0, One, 0, v[2]>>,
     <<0, 0, One, v[3]>>,
     <<0, 0, 0, One>> >>

\* glm::rotate(glm::radians(degrees), glm::vec3(1, 0, 0))
GlmRotateX(degrees) ==
  << <<One, 0, 0, 0>>,
     <<0, Cos(degrees), -Sin(degrees), 0>>,
     <<0, Sin(degrees), Cos(degrees), 0>>,
     <<0, 0, 0, One>> >>

\* glm::rotate(glm::radians(degrees), glm::vec3(0, 1, 0))
GlmRotateY(degrees) ==
  << <<Cos(degrees), 0, Sin(degrees), 0>>,
     <<0, One, 0, 0>>,
     <<-Sin(degrees), 0, Cos(degrees), 0>>,
     <<0, 0, 0, One>> >>

\* glm::rotate(glm::radians(degrees), glm::vec3(0, 0, 1))
GlmRotateZ(degrees) ==
  << <<Cos(degrees), -Sin(degrees), 0, 0>>,
     <<Sin(degrees), Cos(degrees), 0, 0>>,
     <<0, 0, One, 0>>,
     <<0, 0, 0, One>> >>

\* Mutant of ModelView: the five factors multiplied in the opposite order.
ModelView_Reversed(scaleXYZ, XrotationDegrees, YrotationDegrees, ZrotationDegrees, positionXYZ) ==
  MatMul(MatMul(MatMul(MatMul(GlmScale(scaleXYZ),
                              GlmRotateX(XrotationDegrees)),
                       GlmRotateY(YrotationDegrees)),
                GlmRotateZ(ZrotationDegrees)),
         GlmTranslate(positionXYZ))

\* modelView = translation * rotationZ * rotationY * rotationX * scale
ModelView(scaleXYZ, XrotationDegrees, YrotationDegrees, ZrotationDegrees, positionXYZ) ==
  MatMul(MatMul(MatMul(MatMul(GlmTranslate(positionXYZ),
                              GlmRotateZ(ZrotationDegrees)),
                       GlmRotateY(YrotationDegrees)),
                GlmRotateX(XrotationDegrees)),
         GlmScale(scaleXYZ))

----------------------------------------------------------------------------
(* The shader's uniforms *)

NULL == "NULL"
ShaderManager == "ShaderManager"

\* The file-scoped uniform names.
g_ModelName == <<"model">>
g_ColorValueName == <<"objectColor">>
g_TextureValueName == <<"objectTexture">>
g_UseTextureName == <<"bUseTexture">>
g_UseLightingName == <<"bUseLighting">>

\* The function with no argument.
NoUniforms == <<>>

\* What a method call through a null ShaderManager pointer does (undefined
\* behaviour): the process dies, or the call is made on no object and
\* returns.
NullCallOutcomes == {"crash", "returns"}

\* m_pShaderManager->set*Value(name, value). The log keeps the call and which
\* call of the handler's trace made it. Through a null pointer the call is
\* undefined: the process dies, or the call is made and no uniform is set.
SetUniform(s, name, value) ==
  IF s.crashed THEN s
  ELSE IF s.m_pShaderManager = NULL
  THEN IF s.nullCalls = "crash" THEN [s EXCEPT !.crashed = TRUE]
       ELSE [s EXCEPT !.shaderLog = Append(@, [name |-> name, value |-> value,
                                               at |-> Len(s.trace)])]
  ELSE [s EXCEPT !.shader = (name :> value) @@ s.shader,
                 !.shaderLog = Append(@, [name |-> name, value |-> value,
                                          at |-> Len(s.trace)])]

\* The value of a uniform, <<>> while nobody set it.
Uniform(sh, name) == IF name \in DOMAIN sh THEN sh[name] ELSE <<>>

SetTransformationsOp(s, scaleXYZ, XrotationDegrees, YrotationDegrees, ZrotationDegrees, positionXYZ) ==
  IF s.crashed THEN s
  ELSE
    LET modelView == ModelView(scaleXYZ, XrotationDegrees, YrotationDegrees,
                               ZrotationDegrees, positionXYZ)
        s0 == Called(s, "SetTransformations")
    IN IF NULL # s0.m_pShaderManager THEN SetUniform(s0, g_ModelName, modelView)
       ELSE s0

\* Mutant of SetShaderColorOp: the texture flag is left as it is.
SetShaderColorOp_KeepsTextureFlag(s, redColorValue, greenColorValue, blueColorValue, alphaValue) ==
  IF s.crashed THEN s
  ELSE
    LET currentColor == <<redColorValue, greenColorValue, blueColorValue, alphaValue>>
        s0 == Called(s, "SetShaderColor")
    IN IF NULL # s0.m_pShaderManager
       THEN SetUniform(s0, g_ColorValueName, currentColor)
       ELSE s0

SetShaderColorOp(s, redColorValue, greenColorValue, blueColorValue, alphaValue) ==
  IF s.crashed THEN s
  ELSE
    LET currentColor == <<redColorValue, greenColorValue, blueColorValue, alphaValue>>
        s0 == Called(s, "SetShaderColor")
    IN IF NULL # s0.m_pShaderManager
       THEN SetUniform(SetUniform(s0, g_UseTextureName, <<0>>),
                       g_ColorValueName, currentColor)
       ELSE s0

SetShaderTextureOp(s, textureTag) ==
  IF s.crashed THEN s
  ELSE
    LET s0 == Called(s, "SetShaderTexture")
    IN IF NULL # s0.m_pShaderManager
       THEN LET textureID == FindTextureSlot(s0, textureTag)
            IN SetUniform(SetUniform(s0, g_UseTextureName, <<1>>),
                          g_TextureValueName, <<textureID>>)
       ELSE s0

SetTextureUVScaleOp(s, u, v) ==
  IF s.crashed THEN s
  ELSE
    LET s0 == Called(s, "SetTextureUVScale")
    IN IF NULL # s0.m_pShaderManager THEN SetUniform(s0, <<"UVscale">>, <<u, v>>)
       ELSE s0

----------------------------------------------------------------------------
(* Materials *)

Material(tag, diffuseColor, specularColor, shininess) ==
  [tag |-> tag, diffuseColor |-> diffuseColor, specularColor |-> specularColor,
   shininess |-> shininess]

\* The while loop of FindMaterial: the first entry with the tag is copied into
\* the caller's material, which stays as it was when no entry has the tag.
RECURSIVE FindMaterialLoop(_, _, _, _)
FindMaterialLoop(s, tag, material, index) ==
  IF index < Len(s.m_objectMaterials)
  THEN IF s.m_objectMaterials[index + 1].tag = tag
       THEN [material EXCEPT
               !.diffuseColor = s.m_objectMaterials[index + 1].diffuseColor,
               !.specularColor = s.m_objectMaterials[index + 1].specularColor,
               !.shininess = s.m_objectMaterials[index + 1].shininess]
       ELSE FindMaterialLoop(s, tag, material, index + 1)
  ELSE material

\* What FindMaterial returns once the list is not empty: true, whatever
\* bFound is.
FindMaterialResult(bFound) == TRUE

\* bool FindMaterial(tag, material&): <<return value, material>>.
FindMaterial(s, tag, material) ==
  IF Len(s.m_objectMaterials) = 0 THEN <<FALSE, material>>
  ELSE LET bFound == \E i \in 1..Len(s.m_objectMaterials) :
                        s.m_objectMaterials[i].tag = tag
       IN <<FindMaterialResult(bFound), FindMaterialLoop(s, tag, material, 0)>>

\* What the uninitialised local OBJECT_MATERIAL of SetShaderMaterial may hold.
IndeterminateMaterials ==
  { Material("", <<0, 0, 0>>, <<0, 0, 0>>, 0),
    Material("", <<-431602080, 12, 0>>, <<7, 7, 7>>, 85000) }

SetShaderMaterialOp(s, materialTag, indeterminate) ==
  IF s.crashed THEN s
  ELSE
    LET s0 == Called(s, "SetShaderMaterial")
    IN IF Len(s0.m_objectMaterials) > 0
       THEN LET found == FindMaterial(s0, materialTag, indeterminate)
                bReturn == found[1]
                material == found[2]
            IN IF bReturn = TRUE
               THEN SetUniform(
                      SetUniform(
                        SetUniform(s0, <<"material", "diffuseColor">>, material.diffuseColor),
                        <<"material", "specularColor">>, material.specularColor),
                      <<"material", "shininess">>, <<material.shininess>>)
               ELSE s0
       ELSE s0

\* Mutant of DefineObjectMaterialsOp: the glass preset is not defined.
DefineObjectMaterialsOp_WithoutGlass(s) ==
  IF s.crashed THEN s
  ELSE
    [Called(s, "DefineObjectMaterials") EXCEPT !.m_objectMaterials = @ \o
       << Material("metal", <<400, 400, 400>>, <<700, 700, 600>>, 85000),
          Material("marble", <<400, 400, 400>>, <<200, 200, 200>>, 30000),
          Material("felt", <<100, 100, 100>>, <<0, 0, 0>>, 1000),
          Material("leather", <<400, 400, 400>>, <<200, 200, 200>>, 30000) >>]

\* The five presets, in push_back order.
DefineObjectMaterialsOp(s) ==
  IF s.crashed THEN s
  ELSE
    [Called(s, "DefineObjectMaterials") EXCEPT !.m_objectMaterials = @ \o
       << Material("metal", <<400, 400, 400>>, <<700, 700, 600>>, 85000),
          Material("glass", <<500, 500, 500>>, <<1000, 1000, 1000>>, 95000),
          Material("marble", <<400, 400, 400>>, <<200, 200, 200>>, 30000),
          Material("felt", <<100, 100, 100>>, <<0, 0, 0>>, 1000),
          Material("leather", <<400, 400, 400>>, <<200, 200, 200>>, 30000) >>]

----------------------------------------------------------------------------
(* Lights, meshes, PrepareScene *)

\* Mutant of SceneLightUniforms: the commented-out directional light is live.
SceneLightUniforms_WithDirectional ==
  << <<g_UseLightingName, <<1>>>>,
     << <<"directionalLight", "direction">>, <<0, -1000, 0>> >>,
     << <<"directionalLight", "bActive">>, <<1>> >>,
     << <<"pointLights[0]", "bActive">>, <<1>> >>,
     << <<"spotLight", "bActive">>, <<1>> >> >>

\* The uniforms SetupSceneLights sets, in order. No call is guarded by a null
\* check. The two cut-offs are cos(110 degrees) and cos(130 degrees).
SceneLightUniforms ==
  << <<g_UseLightingName, <<1>>>>,
     << <<"pointLights", "position">>, <<0, 20000, 0>> >>,
     << <<"pointLights[0]", "ambient">>, <<550, 500, 500>> >>,
     << <<"pointLights[0]", "diffuse">>, <<750, 700, 700>> >>,
     << <<"pointLights[0]", "specular">>, <<1000, 900, 900>> >>,
     << <<"pointLights[0]", "bActive">>, <<1>> >>,
     << <<"spotLight", "position">>, <<-18000, 10000, 55000>> >>,
     << <<"spotLight", "direction">>, <<1000, -500, -1000>> >>,
     << <<"spotLight", "ambient">>, <<6000, 6000, 6000>> >>,
     << <<"spotLight", "diffuse">>, <<15000, 15000, 15000>> >>,
     << <<"spotLight", "specular">>, <<10000, 10000, 10000>> >>,
     << <<"spotLight", "constant">>, <<1000>> >>,
     << <<"spotLight", "linear">>, <<10>> >>,
     << <<"spotLight", "quadratic">>, <<5>> >>,
     << <<"spotLight", "cutOff">>, <<-342>> >>,
     << <<"spotLight", "outerCutOff">>, <<-643>> >>,
     << <<"spotLight", "bActive">>, <<1>> >> >>

RECURSIVE SetUniforms(_, _, _)
SetUniforms(s, settings, i) ==
  IF i > Len(settings) THEN s
  ELSE LET s1 == SetUniform(s, settings[i][1], settings[i][2])
       IN IF s1.crashed THEN s1 ELSE SetUniforms(s1, settings, i + 1)

SetupSceneLightsOp(s) ==
  IF s.crashed THEN s
  ELSE SetUniforms(Called(s, "SetupSceneLights"), SceneLightUniforms, 1)

\* Mutant of PrepareSceneMeshes: the torus mesh is not loaded.
PrepareSceneMeshes_WithoutTorus ==
  << "LoadBoxMesh", "LoadPlaneMesh", "LoadCylinderMesh", "LoadConeMesh",
     "LoadPrismMesh", "LoadPyramid4Mesh", "LoadSphereMesh",
     "LoadTaperedCylinderMesh", "LoadHexagonMesh" >>

\* m_basicMeshes->Load*Mesh(), in PrepareScene's order.
PrepareSceneMeshes ==
  << "LoadBoxMesh", "LoadPlaneMesh", "LoadCylinderMesh", "LoadConeMesh",
     "LoadPrismMesh", "LoadPyramid4Mesh", "LoadSphereMesh",
     "LoadTaperedCylinderMesh", "LoadTorusMesh", "LoadHexagonMesh" >>

RECURSIVE LoadMeshes(_, _)
LoadMeshes(s, i) ==
  IF i > Len(PrepareSceneMeshes) THEN s
  ELSE LoadMeshes([Called(s, PrepareSceneMeshes[i]) EXCEPT
                     !.meshLoads = Append(@, PrepareSceneMeshes[i])], i + 1)

\* Mutant of PrepareSceneOp: the lights are set up before the textures are
\* loaded.
PrepareSceneOp_LightsFirst(s, ub) ==
  IF s.crashed THEN s
  ELSE
    LET s0 == Called(s, "PrepareScene")
        s1 == SetupSceneLightsOp(s0)
        s2 == LoadSceneTexturesOp(s1, ub)
        s3 == DefineObjectMaterialsOp(s2)
    IN IF s3.crashed THEN s3 ELSE LoadMeshes(s3, 1)

PrepareSceneOp(s, ub) ==
  IF s.crashed THEN s
  ELSE
    LET s0 == Called(s, "PrepareScene")
        s1 == LoadSceneTexturesOp(s0, ub)
        s2 == DefineObjectMaterialsOp(s1)
        s3 == SetupSceneLightsOp(s2)
    IN IF s3.crashed THEN s3 ELSE LoadMeshes(s3, 1)

----------------------------------------------------------------------------
(* The render pass: each Render* method as the list of the calls it makes,  *)
(* in order. A SetTransformations entry holds scaleXYZ, the X, Y and Z      *)
(* rotation and positionXYZ as of the call; a draw entry holds the          *)
(* ShapeMeshes method and its arguments.                                    *)

\* RenderTable: src/Source/SceneManager.cpp lines 594-633
RenderTableOps ==
  <<
    [op |-> "SetTransformations", tag |-> "", part |-> "", args |-> <<35000, 1000, 30000, 0, 0, 0, 0, 0, -6500>>, line |-> 619],
    [op |-> "SetShaderTexture", tag |-> "marble", part |-> "", args |-> <<>>, line |-> 627],
    [op |-> "SetShaderMaterial", tag |-> "marble", part |-> "", args |-> <<>>, line |-> 628],
    [op |-> "DrawPlaneMesh", tag |-> "", part |-> "", args |-> <<>>, line |-> 631]
  >>

\* RenderCologneBottle: src/Source/SceneManager.cpp lines 642-703
RenderCologneBottleOps ==
  <<
    [op |-> "SetTransformations", tag |-> "", part |-> "", args |-> <<5250, 7500, 2250, 90000, 0, 0, -15000, 750, -15000>>, line |-> 658],
    [op |-> "SetShaderTexture", tag |-> "blue_glass", part |-> "", args |-> <<>>, line |-> 659],
    [op |-> "SetShaderMaterial", tag |-> "glass", part |-> "", args |-> <<>>, line |-> 660],
    [op |-> "DrawBoxMesh", tag |-> "", part |-> "", args |-> <<>>, line |-> 662],
    [op |-> "SetTransformations", tag |-> "", part |-> "", args |-> <<750, 750, 300, -90000, 0, 0, -15000, 1875, -15000>>, line |-> 670],
    [op |-> "SetShaderTexture", tag |-> "versace", part |-> "", args |-> <<>>, line |-> 671],
    [op |-> "SetShaderMaterial", tag |-> "metal", part |-> "", args |-> <<>>, line |-> 672],
    [op |-> "DrawSphereMesh", tag |-> "", part |-> "", args |-> <<>>, line |-> 673],
    [op |-> "SetTransformations", tag |-> "", part |-> "", args |-> <<1050, 1200, 1050, 90000, 0, 0, -15000, 750, -19950>>, line |-> 683],
    [op |-> "SetShaderTexture", tag |-> "gold", part |-> "", args |-> <<>>, line |-> 684],
    [op |-> "SetShaderMaterial", tag |-> "metal", part |-> "", args |-> <<>>, line |-> 685],
    [op |-> "DrawCylinderMesh", tag |-> "", part |-> "", args |-> <<>>, line |-> 687],
    [op |-> "SetTransformations", tag |-> "", part |-> "", args |-> <<1500, 1500, 1500, -90000, 0, 90000, -15000, 750, -19950>>, line |-> 695],
    [op |-> "SetShaderTexture", tag |-> "gold", part |-> "", args |-> <<>>, line |-> 696],
    [op |-> "SetShaderMaterial", tag |-> "metal", part |-> "", args |-> <<>>, line |-> 697],
    [op |-> "DrawCylinderMesh", tag |-> "", part |-> "false,true,true", args |-> <<>>, line |-> 698],
    [op |-> "SetShaderTexture", tag |-> "versace", part |-> "", args |-> <<>>, line |-> 699],
    [op |-> "DrawCylinderMesh", tag |-> "", part |-> "true,false,false", args |-> <<>>, line |-> 700]
  >>

\* RenderPerfumeBottle: src/Source/SceneManager.cpp lines 712-774
RenderPerfumeBottleOps ==
  <<
    [op |-> "SetTransformations", tag |-> "", part |-> "", args |-> <<3500, 7000, 3500, 90000, 0, 0, -21000, 875, 2000>>, line |-> 727],
    [op |-> "SetShaderTexture", tag |-> "perfume", part |-> "", args |-> <<>>, line |-> 728],
    [op |-> "SetShaderMaterial", tag |-> "glass", part |-> "", args |-> <<>>, line |-> 729],
    [op |-> "DrawBoxMesh", tag |-> "", part |-> "", args |-> <<>>, line |-> 730],
    [op |-> "SetTransformations", tag |-> "", part |-> "", args |-> <<1300, 2000, 2500, 0, 0, 0, -21000, 2725, 2000>>, line |-> 738],
    [op |-> "SetShaderColor", tag |-> "", part |-> "", args |-> <<1000, 0, 0, 1000>>, line |-> 739],
    [op |-> "DrawPlaneMesh", tag |-> "", part |-> "", args |-> <<>>, line |-> 740],
    [op |-> "SetTransformations", tag |-> "", part |-> "", args |-> <<1300, 1500, 1300, 90000, 0, 0, -21000, 875, -3000>>, line |-> 748],
    [op |-> "SetShaderTexture", tag |-> "gold", part |-> "", args |-> <<>>, line |-> 749],
    [op |-> "SetShaderMaterial", tag |-> "metal", part |-> "", args |-> <<>>, line |-> 750],
    [op |-> "DrawCylinderMesh", tag |-> "", part |-> "", args |-> <<>>, line |-> 751],
    [op |-> "SetTransformations", tag |-> "", part |-> "", args |-> <<3000, 1500, 3000, -90000, 0, 180000, -21000, 875, -3500>>, line |-> 759],
    [op |-> "SetShaderTexture", tag |-> "gold", part |-> "", args |-> <<>>, line |-> 760],
    [op |-> "SetShaderMaterial", tag |-> "metal", part |-> "", args |-> <<>>, line |-> 761],
    [op |-> "DrawBoxMeshSide", tag |-> "", part |-> "bottom", args |-> <<>>, line |-> 762],
    [op |-> "DrawBoxMeshSide", tag |-> "", part |-> "right", args |-> <<>>, line |-> 763],
    [op |-> "DrawBoxMeshSide", tag |-> "", part |-> "left", args |-> <<>>, line |-> 764],
    [op |-> "DrawBoxMeshSide", tag |-> "", part |-> "back", args |-> <<>>, line |-> 765],
    [op |-> "DrawBoxMeshSide", tag |-> "", part |-> "front", args |-> <<>>, line |-> 766],
    [op |-> "SetShaderMaterial", tag |-> "metal", part |-> "", args |-> <<>>, line |-> 769],
    [op |-> "SetShaderTexture", tag |-> "versace", part |-> "", args |-> <<>>, line |-> 770],
    [op |-> "DrawBoxMeshSide", tag |-> "", part |-> "top", args |-> <<>>, line |-> 771]
  >>

\* Mutant of RenderItineraryOps: the SetShaderColor call of line 798 is
\* commented out, as the SetShaderTexture call under it is.
RenderItineraryOps_NoColor ==
  <<
    [op |-> "SetTransformations", tag |-> "", part |-> "", args |-> <<22000, 100, 11000, 0, -60000, 0, -19500, 100, -10000>>, line |-> 797],
    [op |-> "DrawBoxMesh", tag |-> "", part |-> "", args |-> <<>>, line |-> 800],
    [op |-> "SetTransformations", tag |-> "", part |-> "", args |-> <<1500, 1500, 750, 90000, 0, 0, -23250, 300, -17250>>, line |-> 808],
    [op |-> "SetShaderColor", tag |-> "", part |-> "", args |-> <<120, 210, 180, 1000>>, line |-> 809],
    [op |-> "DrawTorusMesh", tag |-> "", part |-> "", args |-> <<>>, line |-> 811],
    [op |-> "SetTransformations", tag |-> "", part |-> "", args |-> <<1600, 300, 1600, 0, 0, 0, -23250, 0, -17250>>, line |-> 819],
    [op |-> "SetShaderColor", tag |-> "", part |-> "", args |-> <<120, 210, 180, 1000>>, line |-> 820],
    [op |-> "DrawHalfSphereMesh", tag |-> "", part |-> "", args |-> <<>>, line |-> 822]
  >>

\* RenderItinerary: src/Source/SceneManager.cpp lines 782-824
RenderItineraryOps ==
  <<
    [op |-> "SetTransformations", tag |-> "", part |-> "", args |-> <<22000, 100, 11000, 0, -60000, 0, -19500, 100, -10000>>, line |-> 797],
    [op |-> "SetShaderColor", tag |-> "", part |-> "", args |-> <<1000, 1000, 1000, 1000>>, line |-> 798],
    [op |-> "DrawBoxMesh", tag |-> "", part |-> "", args |-> <<>>, line |-> 800],
    [op |-> "SetTransformations", tag |-> "", part |-> "", args |-> <<1500, 1500, 750, 90000, 0, 0, -23250, 300, -17250>>, line |-> 808],
    [op |-> "SetShaderColor", tag |-> "", part |-> "", args |-> <<120, 210, 180, 1000>>, line |-> 809],
    [op |-> "DrawTorusMesh", tag |-> "", part |-> "", args |-> <<>>, line |-> 811],
    [op |-> "SetTransformations", tag |-> "", part |-> "", args |-> <<1600, 300, 1600, 0, 0, 0, -23250, 0, -17250>>, line |-> 819],
    [op |-> "SetShaderColor", tag |-> "", part |-> "", args |-> <<120, 210, 180, 1000>>, line |-> 820],
    [op |-> "DrawHalfSphereMesh", tag |-> "", part |-> "", args |-> <<>>, line |-> 822]
  >>

\* Mutant of RenderNecklaceBoxOps: the SetTextureUVScale(1, 1) call of line
\* 1008, after the last chain box, is left out.
RenderNecklaceBoxOps_NoRestore ==
  <<
    [op |-> "SetTransformations", tag |-> "", part |-> "", args |-> <<6000, 2000, 6000, 0, 15000, 0, -5000, 1000, -15000>>, line |-> 847],
    [op |-> "SetShaderTexture", tag |-> "green_felt", part |-> "", args |-> <<>>, line |-> 848],
    [op |-> "SetShaderMaterial", tag |-> "felt", part |-> "", args |-> <<>>, line |-> 849],
    [op |-> "DrawBoxMeshSide", tag |-> "", part |-> "bottom", args |-> <<>>, line |-> 852],
    [op |-> "DrawBoxMeshSide", tag |-> "", part |-> "right", args |-> <<>>, line |-> 853],
    [op |-> "DrawBoxMeshSide", tag |-> "", part |-> "left", args |-> <<>>, line |-> 854],
    [op |-> "DrawBoxMeshSide", tag |-> "", part |-> "back", args |-> <<>>, line |-> 855],
    [op |-> "DrawBoxMeshSide", tag |-> "", part |-> "front", args |-> <<>>, line |-> 856],
    [op |-> "SetShaderMaterial", tag |-> "felt", part |-> "", args |-> <<>>, line |-> 859],
    [op |-> "SetShaderTexture", tag |-> "black_felt", part |-> "", args |-> <<>>, line |-> 860],
    [op |-> "DrawBoxMeshSide", tag |-> "", part |-> "top", args |-> <<>>, line |-> 861],
    [op |-> "SetTransformations", tag |-> "", part |-> "", args |-> <<4300, 200, 4300, 0, 15000, 0, -5000, 2100, -15000>>, line |-> 869],
    [op |-> "SetShaderTexture", tag |-> "black_felt", part |-> "", args |-> <<>>, line |-> 870],
    [op |-> "SetShaderMaterial", tag |-> "felt", part |-> "", args |-> <<>>, line |-> 871],
    [op |-> "DrawBoxMesh", tag |-> "", part |-> "", args |-> <<>>, line |-> 872],
    [op |-> "SetTransformations", tag |-> "", part |-> "", args |-> <<500, 150, 500, 0, 0, 0, -5300, 2300, -15000>>, line |-> 880],
    [op |-> "SetShaderTexture", tag |-> "gold", part |-> "", args |-> <<>>, line |-> 881],
    [op |-> "SetShaderMaterial", tag |-> "metal", part |-> "", args |-> <<>>, line |-> 882],
    [op |-> "DrawCylinderMesh", tag |-> "", part |-> "", args |-> <<>>, line |-> 883],
    [op |-> "SetTransformations", tag |-> "", part |-> "", args |-> <<500, 150, 500, 0, 0, 0, -4500, 2300, -15200>>, line |-> 891],
    [op |-> "SetShaderTexture", tag |-> "gold", part |-> "", args |-> <<>>, line |-> 892],
    [op |-> "SetShaderMaterial", tag |-> "metal", part |-> "", args |-> <<>>, line |-> 893],
    [op |-> "DrawCylinderMesh", tag |-> "", part |-> "", args |-> <<>>, line |-> 894],
    [op |-> "SetTransformations", tag |-> "", part |-> "", args |-> <<500, 150, 500, 0, 0, 0, -5000, 2300, -15470>>, line |-> 902],
    [op |-> "SetShaderTexture", tag |-> "gold", part |-> "", args |-> <<>>, line |-> 903],
    [op |-> "SetShaderMaterial", tag |-> "metal", part |-> "", args |-> <<>>, line |-> 904],
    [op |-> "DrawCylinderMesh", tag |-> "", part |-> "", args |-> <<>>, line |-> 905],
    [op |-> "SetTransformations", tag |-> "", part |-> "", args |-> <<500, 150, 500, 0, 0, 0, -4800, 2300, -14750>>, line |-> 913],
    [op |-> "SetShaderTexture", tag |-> "gold", part |-> "", args |-> <<>>, line |-> 914],
    [op |-> "SetShaderMaterial", tag |-> "metal", part |-> "", args |-> <<>>, line |-> 915],
    [op |-> "DrawCylinderMesh", tag |-> "", part |-> "", args |-> <<>>, line |-> 916],
    [op |-> "SetTransformations", tag |-> "", part |-> "", args |-> <<150, 150, 150, 0, 0, 0, -4900, 2450, -15200>>, line |-> 924],
    [op |-> "SetShaderTexture", tag |-> "gold", part |-> "", args |-> <<>>, line |-> 925],
    [op |-> "SetShaderMaterial", tag |-> "metal", part |-> "", args |-> <<>>, line |-> 926],
    [op |-> "DrawSphereMesh", tag |-> "", part |-> "", args |-> <<>>, line |-> 927],
    [op |-> "SetTransformations", tag |-> "", part |-> "", args |-> <<1750, 200, 200, 0, -25000, 0, -6000, 2300, -16000>>, line |-> 935],
    [op |-> "SetTextureUVScale", tag |-> "", part |-> "", args |-> <<1000, 1000>>, line |-> 936],
    [op |-> "SetShaderTexture", tag |-> "gold_chain", part |-> "", args |-> <<>>, line |-> 937],
    [op |-> "SetShaderMaterial", tag |-> "metal", part |-> "", args |-> <<>>, line |-> 938],
    [op |-> "DrawBoxMesh", tag |-> "", part |-> "", args |-> <<>>, line |-> 939],
    [op |-> "SetTransformations", tag |-> "", part |-> "", args |-> <<3950, 200, 200, 0, 105000, 0, -6300, 2250, -14500>>, line |-> 947],
    [op |-> "SetTextureUVScale", tag |-> "", part |-> "", args |-> <<2250, 1000>>, line |-> 948],
    [op |-> "SetShaderTexture", tag |-> "gold_chain", part |-> "", args |-> <<>>, line |-> 949],
    [op |-> "SetShaderMaterial", tag |-> "metal", part |-> "", args |-> <<>>, line |-> 950],
    [op |-> "DrawBoxMesh", tag |-> "", part |-> "", args |-> <<>>, line |-> 951],
    [op |-> "SetTransformations", tag |-> "", part |-> "", args |-> <<500, 200, 200, 105000, 0, 90000, -5800, 2090, -12600>>, line |-> 959],
    [op |-> "SetTextureUVScale", tag |-> "", part |-> "", args |-> <<500, 500>>, line |-> 960],
    [op |-> "SetShaderTexture", tag |-> "gold_chain", part |-> "", args |-> <<>>, line |-> 961],
    [op |-> "SetShaderMaterial", tag |-> "metal", part |-> "", args |-> <<>>, line |-> 962],
    [op |-> "DrawBoxMesh", tag |-> "", part |-> "", args |-> <<>>, line |-> 963],
    [op |-> "SetTransformations", tag |-> "", part |-> "", args |-> <<1750, 200, 200, 0, 55000, 0, -4500, 2300, -16300>>, line |-> 971],
    [op |-> "SetTextureUVScale", tag |-> "", part |-> "", args |-> <<1000, 1000>>, line |-> 972],
    [op |-> "SetShaderTexture", tag |-> "gold_chain", part |-> "", args |-> <<>>, line |-> 973],
    [op |-> "SetShaderMaterial", tag |-> "metal", part |-> "", args |-> <<>>, line |-> 974],
    [op |-> "DrawBoxMesh", tag |-> "", part |-> "", args |-> <<>>, line |-> 975],
    [op |-> "SetTransformations", tag |-> "", part |-> "", args |-> <<3950, 200, 200, 0, 107000, 0, -3400, 2250, -15250>>, line |-> 983],
    [op |-> "SetTextureUVScale", tag |-> "", part |-> "", args |-> <<2250, 1000>>, line |-> 984],
    [op |-> "SetShaderTexture", tag |-> "gold_chain", part |-> "", args |-> <<>>, line |-> 985],
    [op |-> "SetShaderMaterial", tag |-> "metal", part |-> "", args |-> <<>>, line |-> 986],
    [op |-> "DrawBoxMesh", tag |-> "", part |-> "", args |-> <<>>, line |-> 987],
    [op |-> "SetTransformations", tag |-> "", part |-> "", args |-> <<500, 200, 200, 105000, 0, 90000, -2800, 2090, -13350>>, line |-> 995],
    [op |-> "SetTextureUVScale", tag |-> "", part |-> "", args |-> <<500, 500>>, line |-> 996],
    [op |-> "SetShaderTexture", tag |-> "gold_chain", part |-> "", args |-> <<>>, line |-> 997],
    [op |-> "SetShaderMaterial", tag |-> "metal", part |-> "", args |-> <<>>, line |-> 998],
    [op |-> "DrawBoxMesh", tag |-> "", part |-> "", args |-> <<>>, line |-> 999],
    [op |-> "SetTransformations", tag |-> "", part |-> "", args |-> <<6000, 2000, 6000, 70000, 15000, 0, -6300, 4500, -19800>>, line |-> 1007],
    [op |-> "SetShaderTexture", tag |-> "green_felt", part |-> "", args |-> <<>>, line |-> 1009],
    [op |-> "SetShaderMaterial", tag |-> "felt", part |-> "", args |-> <<>>, line |-> 1010],
    [op |-> "DrawBoxMesh", tag |-> "", part |-> "", args |-> <<>>, line |-> 1011],
    [op |-> "SetTransformations", tag |-> "", part |-> "", args |-> <<5000, 200, 5000, 70000, 15000, 0, -6000, 4750, -18750>>, line |-> 1019],
    [op |-> "SetShaderTexture", tag |-> "black_felt", part |-> "", args |-> <<>>, line |-> 1020],
    [op |-> "SetShaderMaterial", tag |-> "felt", part |-> "", args |-> <<>>, line |-> 1021],
    [op |-> "DrawBoxMesh", tag |-> "", part |-> "", args |-> <<>>, line |-> 1022]
  >>

\* RenderNecklaceBox: src/Source/SceneManager.cpp lines 832-1023
RenderNecklaceBoxOps ==
  <<
    [op |-> "SetTransformations", tag |-> "", part |-> "", args |-> <<6000, 2000, 6000, 0, 15000, 0, -5000, 1000, -15000>>, line |-> 847],
    [op |-> "SetShaderTexture", tag |-> "green_felt", part |-> "", args |-> <<>>, line |-> 848],
    [op |-> "SetShaderMaterial", tag |-> "felt", part |-> "", args |-> <<>>, line |-> 849],
    [op |-> "DrawBoxMeshSide", tag |-> "", part |-> "bottom", args |-> <<>>, line |-> 852],
    [op |-> "DrawBoxMeshSide", tag |-> "", part |-> "right", args |-> <<>>, line |-> 853],
    [op |-> "DrawBoxMeshSide", tag |-> "", part |-> "left", args |-> <<>>, line |-> 854],
    [op |-> "DrawBoxMeshSide", tag |-> "", part |-> "back", args |-> <<>>, line |-> 855],
    [op |-> "DrawBoxMeshSide", tag |-> "", part |-> "front", args |-> <<>>, line |-> 856],
    [op |-> "SetShaderMaterial", tag |-> "felt", part |-> "", args |-> <<>>, line |-> 859],
    [op |-> "SetShaderTexture", tag |-> "black_felt", part |-> "", args |-> <<>>, line |-> 860],
    [op |-> "DrawBoxMeshSide", tag |-> "", part |-> "top", args |-> <<>>, line |-> 861],
    [op |-> "SetTransformations", tag |-> "", part |-> "", args |-> <<4300, 200, 4300, 0, 15000, 0, -5000, 2100, -15000>>, line |-> 869],
    [op |-> "SetShaderTexture", tag |-> "black_felt", part |-> "", args |-> <<>>, line |-> 870],
    [op |-> "SetShaderMaterial", tag |-> "felt", part |-> "", args |-> <<>>, line |-> 871],
    [op |-> "DrawBoxMesh", tag |-> "", part |-> "", args |-> <<>>, line |-> 872],
    [op |-> "SetTransformations", tag |-> "", part |-> "", args |-> <<500, 150, 500, 0, 0, 0, -5300, 2300, -15000>>, line |-> 880],
    [op |-> "SetShaderTexture", tag |-> "gold", part |-> "", args |-> <<>>, line |-> 881],
    [op |-> "SetShaderMaterial", tag |-> "metal", part |-> "", args |-> <<>>, line |-> 882],
    [op |-> "DrawCylinderMesh", tag |-> "", part |-> "", args |-> <<>>, line |-> 883],
    [op |-> "SetTransformations", tag |-> "", part |-> "", args |-> <<500, 150, 500, 0, 0, 0, -4500, 2300, -15200>>, line |-> 891],
    [op |-> "SetShaderTexture", tag |-> "gold", part |-> "", args |-> <<>>, line |-> 892],
    [op |-> "SetShaderMaterial", tag |-> "metal", part |-> "", args |-> <<>>, line |-> 893],
    [op |-> "DrawCylinderMesh", tag |-> "", part |-> "", args |-> <<>>, line |-> 894],
    [op |-> "SetTransformations", tag |-> "", part |-> "", args |-> <<500, 150, 500, 0, 0, 0, -5000, 2300, -15470>>, line |-> 902],
    [op |-> "SetShaderTexture", tag |-> "gold", part |-> "", args |-> <<>>, line |-> 903],
    [op |-> "SetShaderMaterial", tag |-> "metal", part |-> "", args |-> <<>>, line |-> 904],
    [op |-> "DrawCylinderMesh", tag |-> "", part |-> "", args |-> <<>>, line |-> 905],
    [op |-> "SetTransformations", tag |-> "", part |-> "", args |-> <<500, 150, 500, 0, 0, 0, -4800, 2300, -14750>>, line |-> 913],
    [op |-> "SetShaderTexture", tag |-> "gold", part |-> "", args |-> <<>>, line |-> 914],
    [op |-> "SetShaderMaterial", tag |-> "metal", part |-> "", args |-> <<>>, line |-> 915],
    [op |-> "DrawCylinderMesh", tag |-> "", part |-> "", args |-> <<>>, line |-> 916],
    [op |-> "SetTransformations", tag |-> "", part |-> "", args |-> <<150, 150, 150, 0, 0, 0, -4900, 2450, -15200>>, line |-> 924],
    [op |-> "SetShaderTexture", tag |-> "gold", part |-> "", args |-> <<>>, line |-> 925],
    [op |-> "SetShaderMaterial", tag |-> "metal", part |-> "", args |-> <<>>, line |-> 926],
    [op |-> "DrawSphereMesh", tag |-> "", part |-> "", args |-> <<>>, line |-> 927],
    [op |-> "SetTransformations", tag |-> "", part |-> "", args |-> <<1750, 200, 200, 0, -25000, 0, -6000, 2300, -16000>>, line |-> 935],
    [op |-> "SetTextureUVScale", tag |-> "", part |-> "", args |-> <<1000, 1000>>, line |-> 936],
    [op |-> "SetShaderTexture", tag |-> "gold_chain", part |-> "", args |-> <<>>, line |-> 937],
    [op |-> "SetShaderMaterial", tag |-> "metal", part |-> "", args |-> <<>>, line |-> 938],
    [op |-> "DrawBoxMesh", tag |-> "", part |-> "", args |-> <<>>, line |-> 939],
    [op |-> "SetTransformations", tag |-> "", part |-> "", args |-> <<3950, 200, 200, 0, 105000, 0, -6300, 2250, -14500>>, line |-> 947],
    [op |-> "SetTextureUVScale", tag |-> "", part |-> "", args |-> <<2250, 1000>>, line |-> 948],
    [op |-> "SetShaderTexture", tag |-> "gold_chain", part |-> "", args |-> <<>>, line |-> 949],
    [op |-> "SetShaderMaterial", tag |-> "metal", part |-> "", args |-> <<>>, line |-> 950],
    [op |-> "DrawBoxMesh", tag |-> "", part |-> "", args |-> <<>>, line |-> 951],
    [op |-> "SetTransformations", tag |-> "", part |-> "", args |-> <<500, 200, 200, 105000, 0, 90000, -5800, 2090, -12600>>, line |-> 959],
    [op |-> "SetTextureUVScale", tag |-> "", part |-> "", args |-> <<500, 500>>, line |-> 960],
    [op |-> "SetShaderTexture", tag |-> "gold_chain", part |-> "", args |-> <<>>, line |-> 961],
    [op |-> "SetShaderMaterial", tag |-> "metal", part |-> "", args |-> <<>>, line |-> 962],
    [op |-> "DrawBoxMesh", tag |-> "", part |-> "", args |-> <<>>, line |-> 963],
    [op |-> "SetTransformations", tag |-> "", part |-> "", args |-> <<1750, 200, 200, 0, 55000, 0, -4500, 2300, -16300>>, line |-> 971],
    [op |-> "SetTextureUVScale", tag |-> "", part |-> "", args |-> <<1000, 1000>>, line |-> 972],
    [op |-> "SetShaderTexture", tag |-> "gold_chain", part |-> "", args |-> <<>>, line |-> 973],
    [op |-> "SetShaderMaterial", tag |-> "metal", part |-> "", args |-> <<>>, line |-> 974],
    [op |-> "DrawBoxMesh", tag |-> "", part |-> "", args |-> <<>>, line |-> 975],
    [op |-> "SetTransformations", tag |-> "", part |-> "", args |-> <<3950, 200, 200, 0, 107000, 0, -3400, 2250, -15250>>, line |-> 983],
    [op |-> "SetTextureUVScale", tag |-> "", part |-> "", args |-> <<2250, 1000>>, line |-> 984],
    [op |-> "SetShaderTexture", tag |-> "gold_chain", part |-> "", args |-> <<>>, line |-> 985],
    [op |-> "SetShaderMaterial", tag |-> "metal", part |-> "", args |-> <<>>, line |-> 986],
    [op |-> "DrawBoxMesh", tag |-> "", part |-> "", args |-> <<>>, line |-> 987],
    [op |-> "SetTransformations", tag |-> "", part |-> "", args |-> <<500, 200, 200, 105000, 0, 90000, -2800, 2090, -13350>>, line |-> 995],
    [op |-> "SetTextureUVScale", tag |-> "", part |-> "", args |-> <<500, 500>>, line |-> 996],
    [op |-> "SetShaderTexture", tag |-> "gold_chain", part |-> "", args |-> <<>>, line |-> 997],
    [op |-> "SetShaderMaterial", tag |-> "metal", part |-> "", args |-> <<>>, line |-> 998],
    [op |-> "DrawBoxMesh", tag |-> "", part |-> "", args |-> <<>>, line |-> 999],
    [op |-> "SetTransformations", tag |-> "", part |-> "", args |-> <<6000, 2000, 6000, 70000, 15000, 0, -6300, 4500, -19800>>, line |-> 1007],
    [op |-> "SetTextureUVScale", tag |-> "", part |-> "", args |-> <<1000, 1000>>, line |-> 1008],
    [op |-> "SetShaderTexture", tag |-> "green_felt", part |-> "", args |-> <<>>, line |-> 1009],
    [op |-> "SetShaderMaterial", tag |-> "felt", part |-> "", args |-> <<>>, line |-> 1010],
    [op |-> "DrawBoxMesh", tag |-> "", part |-> "", args |-> <<>>, line |-> 1011],
    [op |-> "SetTransformations", tag |-> "", part |-> "", args |-> <<5000, 200, 5000, 70000, 15000, 0, -6000, 4750, -18750>>, line |-> 1019],
    [op |-> "SetShaderTexture", tag |-> "black_felt", part |-> "", args |-> <<>>, line |-> 1020],
    [op |-> "SetShaderMaterial", tag |-> "felt", part |-> "", args |-> <<>>, line |-> 1021],
    [op |-> "DrawBoxMesh", tag |-> "", part |-> "", args |-> <<>>, line |-> 1022]
  >>

\* RenderRingBox: src/Source/SceneManager.cpp lines 1031-1168
RenderRingBoxOps ==
  <<
    [op |-> "SetTransformations", tag |-> "", part |-> "", args |-> <<7000, 7000, 2000, 90000, -20000, 0, 10000, 1000, -13000>>, line |-> 1046],
    [op |-> "SetShaderTexture", tag |-> "peach_felt", part |-> "", args |-> <<>>, line |-> 1047],
    [op |-> "SetShaderMaterial", tag |-> "felt", part |-> "", args |-> <<>>, line |-> 1048],
    [op |-> "DrawHexagonMesh", tag |-> "", part |-> "", args |-> <<>>, line |-> 1049],
    [op |-> "SetTransformations", tag |-> "", part |-> "", args |-> <<5750, 5750, 400, 90000, -20000, 0, 10000, 2200, -13000>>, line |-> 1057],
    [op |-> "SetShaderTexture", tag |-> "peach_felt", part |-> "", args |-> <<>>, line |-> 1058],
    [op |-> "SetShaderMaterial", tag |-> "felt", part |-> "", args |-> <<>>, line |-> 1059],
    [op |-> "DrawHexagonMesh", tag |-> "", part |-> "", args |-> <<>>, line |-> 1060],
    [op |-> "SetTransformations", tag |-> "", part |-> "", args |-> <<7000, 7000, 2000, 90000, -20000, 0, 16000, 1000, -16500>>, line |-> 1068],
    [op |-> "SetShaderTexture", tag |-> "peach_felt", part |-> "", args |-> <<>>, line |-> 1069],
    [op |-> "SetShaderMaterial", tag |-> "felt", part |-> "", args |-> <<>>, line |-> 1070],
    [op |-> "DrawHexagonMesh", tag |-> "", part |-> "", args |-> <<>>, line |-> 1071],
    [op |-> "SetTransformations", tag |-> "", part |-> "", args |-> <<5750, 5750, 400, 90000, -20000, 0, 16000, 2200, -16500>>, line |-> 1079],
    [op |-> "SetShaderTexture", tag |-> "peach_felt", part |-> "", args |-> <<>>, line |-> 1080],
    [op |-> "SetShaderMaterial", tag |-> "felt", part |-> "", args |-> <<>>, line |-> 1081],
    [op |-> "DrawHexagonMesh", tag |-> "", part |-> "", args |-> <<>>, line |-> 1082],
    [op |-> "SetTransformations", tag |-> "", part |-> "", args |-> <<1350, 1000, 1350, 90000, -20000, 0, 10600, 2200, -14400>>, line |-> 1090],
    [op |-> "SetShaderTexture", tag |-> "gold", part |-> "", args |-> <<>>, line |-> 1092],
    [op |-> "SetShaderMaterial", tag |-> "metal", part |-> "", args |-> <<>>, line |-> 1093],
    [op |-> "DrawCylinderMesh", tag |-> "", part |-> "", args |-> <<>>, line |-> 1094],
    [op |-> "SetTransformations", tag |-> "", part |-> "", args |-> <<400, 750, 100, 90000, -20000, 0, 10450, 3550, -13950>>, line |-> 1102],
    [op |-> "SetShaderTexture", tag |-> "blue_glass", part |-> "", args |-> <<>>, line |-> 1104],
    [op |-> "SetShaderMaterial", tag |-> "glass", part |-> "", args |-> <<>>, line |-> 1105],
    [op |-> "DrawBoxMesh", tag |-> "", part |-> "", args |-> <<>>, line |-> 1106],
    [op |-> "SetTransformations", tag |-> "", part |-> "", args |-> <<800, 1000, 800, 0, -20000, 0, 10000, 2200, -12500>>, line |-> 1114],
    [op |-> "SetShaderTexture", tag |-> "gold", part |-> "", args |-> <<>>, line |-> 1116],
    [op |-> "SetShaderMaterial", tag |-> "metal", part |-> "", args |-> <<>>, line |-> 1117],
    [op |-> "DrawTorusMesh", tag |-> "", part |-> "", args |-> <<>>, line |-> 1118],
    [op |-> "SetTransformations", tag |-> "", part |-> "", args |-> <<300, 500, 200, 90000, -20000, 0, 10000, 3650, -12500>>, line |-> 1126],
    [op |-> "SetShaderTexture", tag |-> "gold", part |-> "", args |-> <<>>, line |-> 1128],
    [op |-> "SetShaderMaterial", tag |-> "metal", part |-> "", args |-> <<>>, line |-> 1129],
    [op |-> "DrawTorusMesh", tag |-> "", part |-> "", args |-> <<>>, line |-> 1130],
    [op |-> "SetTransformations", tag |-> "", part |-> "", args |-> <<300, 200, 500, 0, -20000, 0, 10000, 3650, -12500>>, line |-> 1138],
    [op |-> "SetShaderTexture", tag |-> "marble", part |-> "", args |-> <<>>, line |-> 1140],
    [op |-> "SetShaderMaterial", tag |-> "metal", part |-> "", args |-> <<>>, line |-> 1141],
    [op |-> "DrawHalfSphereMesh", tag |-> "", part |-> "", args |-> <<>>, line |-> 1142],
    [op |-> "SetTransformations", tag |-> "", part |-> "", args |-> <<500, 400, 500, 180000, -20000, 0, 10000, 3450, -12500>>, line |-> 1150],
    [op |-> "SetShaderTexture", tag |-> "marble", part |-> "", args |-> <<>>, line |-> 1152],
    [op |-> "SetShaderMaterial", tag |-> "metal", part |-> "", args |-> <<>>, line |-> 1153],
    [op |-> "DrawPyramid4Mesh", tag |-> "", part |-> "", args |-> <<>>, line |-> 1154],
    [op |-> "SetTransformations", tag |-> "", part |-> "", args |-> <<800, 1000, 800, 15000, -25000, 0, 9600, 2100, -12500>>, line |-> 1162],
    [op |-> "SetShaderTexture", tag |-> "gold", part |-> "", args |-> <<>>, line |-> 1164],
    [op |-> "SetShaderMaterial", tag |-> "metal", part |-> "", args |-> <<>>, line |-> 1165],
    [op |-> "DrawTorusMesh", tag |-> "", part |-> "", args |-> <<>>, line |-> 1166]
  >>

\* RenderEarrings: src/Source/SceneManager.cpp lines 1176-1240
RenderEarringsOps ==
  <<
    [op |-> "SetTransformations", tag |-> "", part |-> "", args |-> <<4500, 500, 6500, 0, -15000, 0, 3000, 250, -15000>>, line |-> 1191],
    [op |-> "SetShaderTexture", tag |-> "black_felt", part |-> "", args |-> <<>>, line |-> 1192],
    [op |-> "SetShaderMaterial", tag |-> "felt", part |-> "", args |-> <<>>, line |-> 1193],
    [op |-> "DrawBoxMesh", tag |-> "", part |-> "", args |-> <<>>, line |-> 1194],
    [op |-> "SetTransformations", tag |-> "", part |-> "", args |-> <<400, 400, 500, 0, -15000, 0, 2500, 750, -14000>>, line |-> 1202],
    [op |-> "SetShaderTexture", tag |-> "marble", part |-> "", args |-> <<>>, line |-> 1203],
    [op |-> "SetShaderMaterial", tag |-> "marble", part |-> "", args |-> <<>>, line |-> 1204],
    [op |-> "DrawSphereMesh", tag |-> "", part |-> "", args |-> <<>>, line |-> 1205],
    [op |-> "SetTransformations", tag |-> "", part |-> "", args |-> <<400, 400, 500, 0, 20000, 0, 3150, 750, -14500>>, line |-> 1213],
    [op |-> "SetShaderTexture", tag |-> "marble", part |-> "", args |-> <<>>, line |-> 1214],
    [op |-> "SetShaderMaterial", tag |-> "marble", part |-> "", args |-> <<>>, line |-> 1215],
    [op |-> "DrawSphereMesh", tag |-> "", part |-> "", args |-> <<>>, line |-> 1216],
    [op |-> "SetTransformations", tag |-> "", part |-> "", args |-> <<400, 600, 200, 90000, -25000, 0, 2800, 650, -15100>>, line |-> 1224],
    [op |-> "SetShaderTexture", tag |-> "gold", part |-> "", args |-> <<>>, line |-> 1225],
    [op |-> "SetShaderMaterial", tag |-> "metal", part |-> "", args |-> <<>>, line |-> 1226],
    [op |-> "DrawTorusMesh", tag |-> "", part |-> "", args |-> <<>>, line |-> 1227],
    [op |-> "SetTransformations", tag |-> "", part |-> "", args |-> <<400, 600, 200, 90000, -45000, 0, 3200, 650, -15400>>, line |-> 1235],
    [op |-> "SetShaderTexture", tag |-> "gold", part |-> "", args |-> <<>>, line |-> 1236],
    [op |-> "SetShaderMaterial", tag |-> "metal", part |-> "", args |-> <<>>, line |-> 1237],
    [op |-> "DrawTorusMesh", tag |-> "", part |-> "", args |-> <<>>, line |-> 1238]
  >>

\* RenderWhiteVowBook: src/Source/SceneManager.cpp lines 1248-1330
RenderWhiteVowBookOps ==
  <<
    [op |-> "SetTransformations", tag |-> "", part |-> "", args |-> <<13000, 500, 17000, 0, 15000, 0, -3000, 250, 1000>>, line |-> 1263],
    [op |-> "SetShaderTexture", tag |-> "gray_felt", part |-> "", args |-> <<>>, line |-> 1264],
    [op |-> "SetShaderMaterial", tag |-> "felt", part |-> "", args |-> <<>>, line |-> 1265],
    [op |-> "DrawBoxMesh", tag |-> "", part |-> "", args |-> <<>>, line |-> 1266],
    [op |-> "SetTransformations", tag |-> "", part |-> "", args |-> <<10000, 200, 14000, 0, 15000, 0, -3000, 600, 1000>>, line |-> 1274],
    [op |-> "SetShaderTexture", tag |-> "white_leather", part |-> "", args |-> <<>>, line |-> 1275],
    [op |-> "SetShaderMaterial", tag |-> "leather", part |-> "", args |-> <<>>, line |-> 1276],
    [op |-> "DrawBoxMesh", tag |-> "", part |-> "", args |-> <<>>, line |-> 1277],
    [op |-> "SetTransformations", tag |-> "", part |-> "", args |-> <<10000, 200, 14000, 2000, 15000, 5000, -3000, 1000, 1000>>, line |-> 1285],
    [op |-> "SetShaderTexture", tag |-> "white_leather", part |-> "", args |-> <<>>, line |-> 1286],
    [op |-> "SetShaderMaterial", tag |-> "leather", part |-> "", args |-> <<>>, line |-> 1287],
    [op |-> "DrawBoxMesh", tag |-> "", part |-> "", args |-> <<>>, line |-> 1288],
    [op |-> "SetTransformations", tag |-> "", part |-> "", args |-> <<8000, 50, 14000, 750, 15000, 3500, -2250, 800, 750>>, line |-> 1296],
    [op |-> "SetShaderColor", tag |-> "", part |-> "", args |-> <<1000, 1000, 1000, 1000>>, line |-> 1297],
    [op |-> "DrawBoxMesh", tag |-> "", part |-> "", args |-> <<>>, line |-> 1298],
    [op |-> "SetTransformations", tag |-> "", part |-> "", args |-> <<8000, 50, 14000, 750, 15000, 2500, -2250, 800, 750>>, line |-> 1306],
    [op |-> "SetShaderColor", tag |-> "", part |-> "", args |-> <<1000, 1000, 1000, 1000>>, line |-> 1307],
    [op |-> "DrawBoxMesh", tag |-> "", part |-> "", args |-> <<>>, line |-> 1308],
    [op |-> "SetTransformations", tag |-> "", part |-> "", args |-> <<8000, 50, 14000, 750, 15000, 1500, -2250, 800, 750>>, line |-> 1316],
    [op |-> "SetShaderColor", tag |-> "", part |-> "", args |-> <<1000, 1000, 1000, 1000>>, line |-> 1317],
    [op |-> "DrawBoxMesh", tag |-> "", part |-> "", args |-> <<>>, line |-> 1318],
    [op |-> "SetTransformations", tag |-> "", part |-> "", args |-> <<8000, 50, 14000, 750, 15000, 500, -2250, 800, 750>>, line |-> 1326],
    [op |-> "SetShaderColor", tag |-> "", part |-> "", args |-> <<1000, 1000, 1000, 1000>>, line |-> 1327],
    [op |-> "DrawBoxMesh", tag |-> "", part |-> "", args |-> <<>>, line |-> 1328]
  >>

\* RenderBrownVowBook: src/Source/SceneManager.cpp lines 1338-1419
RenderBrownVowBookOps ==
  <<
    [op |-> "SetTransformations", tag |-> "", part |-> "", args |-> <<13000, 500, 17000, 0, 0, 0, 12000, 250, 1000>>, line |-> 1353],
    [op |-> "SetShaderTexture", tag |-> "gray_felt", part |-> "", args |-> <<>>, line |-> 1354],
    [op |-> "SetShaderMaterial", tag |-> "felt", part |-> "", args |-> <<>>, line |-> 1355],
    [op |-> "DrawBoxMesh", tag |-> "", part |-> "", args |-> <<>>, line |-> 1356],
    [op |-> "SetTransformations", tag |-> "", part |-> "", args |-> <<10000, 200, 14000, 0, 0, 0, 12000, 600, 1000>>, line |-> 1364],
    [op |-> "SetShaderTexture", tag |-> "brown_leather", part |-> "", args |-> <<>>, line |-> 1365],
    [op |-> "SetShaderMaterial", tag |-> "leather", part |-> "", args |-> <<>>, line |-> 1366],
    [op |-> "DrawBoxMesh", tag |-> "", part |-> "", args |-> <<>>, line |-> 1367],
    [op |-> "SetTransformations", tag |-> "", part |-> "", args |-> <<10000, 200, 14000, 0, 0, 5000, 12000, 1000, 1000>>, line |-> 1375],
    [op |-> "SetShaderTexture", tag |-> "brown_leather", part |-> "", args |-> <<>>, line |-> 1376],
    [op |-> "SetShaderMaterial", tag |-> "leather", part |-> "", args |-> <<>>, line |-> 1377],
    [op |-> "DrawBoxMesh", tag |-> "", part |-> "", args |-> <<>>, line |-> 1378],
    [op |-> "SetTransformations", tag |-> "", part |-> "", args |-> <<8000, 50, 14000, 0, 0, 4000, 12750, 800, 1000>>, line |-> 1386],
    [op |-> "SetShaderColor", tag |-> "", part |-> "", args |-> <<1000, 1000, 1000, 1000>>, line |-> 1387],
    [op |-> "DrawBoxMesh", tag |-> "", part |-> "", args |-> <<>>, line |-> 1388],
    [op |-> "SetTransformations", tag |-> "", part |-> "", args |-> <<8000, 50, 14000, 0, 0, 3000, 12750, 800, 1000>>, line |-> 1396],
    [op |-> "SetShaderColor", tag |-> "", part |-> "", args |-> <<1000, 1000, 1000, 1000>>, line |-> 1397],
    [op |-> "DrawBoxMesh", tag |-> "", part |-> "", args |-> <<>>, line |-> 1398],
    [op |-> "SetTransformations", tag |-> "", part |-> "", args |-> <<8000, 50, 14000, 0, 0, 2000, 12750, 800, 1000>>, line |-> 1406],
    [op |-> "SetShaderColor", tag |-> "", part |-> "", args |-> <<1000, 1000, 1000, 1000>>, line |-> 1407],
    [op |-> "DrawBoxMesh", tag |-> "", part |-> "", args |-> <<>>, line |-> 1408],
    [op |-> "SetTransformations", tag |-> "", part |-> "", args |-> <<8000, 50, 14000, 0, 0, 1000, 12750, 800, 1000>>, line |-> 1416],
    [op |-> "SetShaderColor", tag |-> "", part |-> "", args |-> <<1000, 1000, 1000, 1000>>, line |-> 1417],
    [op |-> "DrawBoxMesh", tag |-> "", part |-> "", args |-> <<>>, line |-> 1418]
  >>

\* Mutant of DrawMeshOp: a mesh whose texture was not found is not drawn.
DrawMeshOp_SkipsMissingTexture(s, object, call) ==
  IF Uniform(s.shader, g_UseTextureName) = <<1>>
     /\ Uniform(s.shader, g_TextureValueName) = <<-1>>
  THEN s
  ELSE [Called(s, call.op) EXCEPT !.drawLog =
          Append(@, [object |-> object, mesh |-> call.op, part |-> call.part,
                     line |-> call.line, at |-> Len(s.trace) + 1,
                     shader |-> s.shader])]

\* m_basicMeshes->Draw*Mesh(...): the draw call is issued whatever the
\* uniforms hold. The log keeps which call of the trace it is and the
\* uniforms it is issued with.
DrawMeshOp(s, object, call) ==
  [Called(s, call.op) EXCEPT !.drawLog =
     Append(@, [object |-> object, mesh |-> call.op, part |-> call.part,
                line |-> call.line, at |-> Len(s.trace) + 1,
                shader |-> s.shader])]

\* One call of a Render* method.
RenderCall(s, object, call, indeterminate) ==
  IF s.crashed THEN s
  ELSE IF call.op = "SetTransformations"
  THEN SetTransformationsOp(s, SubSeq(call.args, 1, 3), call.args[4], call.args[5],
                            call.args[6], SubSeq(call.args, 7, 9))
  ELSE IF call.op = "SetShaderTexture" THEN SetShaderTextureOp(s, call.tag)
  ELSE IF call.op = "SetShaderMaterial"
  THEN SetShaderMaterialOp(s, call.tag, indeterminate)
  ELSE IF call.op = "SetShaderColor"
  THEN SetShaderColorOp(s, call.args[1], call.args[2], call.args[3], call.args[4])
  ELSE IF call.op = "SetTextureUVScale"
  THEN SetTextureUVScaleOp(s, call.args[1], call.args[2])
  ELSE DrawMeshOp(s, object, call)

\* The calls callList[from..to], in order (the list is halved to keep the
\* evaluation shallow).
RECURSIVE RenderCalls(_, _, _, _, _, _)
RenderCalls(s, object, callList, from, to, indeterminate) ==
  IF from > to THEN s
  ELSE IF from = to THEN RenderCall(s, object, callList[from], indeterminate)
  ELSE LET mid == (from + to) \div 2
           half == RenderCalls(s, object, callList, from, mid, indeterminate)
       IN IF half.crashed THEN half
          ELSE RenderCalls(half, object, callList, mid + 1, to, indeterminate)

RenderObject(s, object, callList, indeterminate) ==
  IF s.crashed THEN s
  ELSE RenderCalls(Called(s, object), object, callList, 1, Len(callList), indeterminate)

\* RenderScene's nine calls, in order.
SceneObjects ==
  << <<"RenderTable", RenderTableOps>>,
     <<"RenderCologneBottle", RenderCologneBottleOps>>,
     <<"RenderPerfumeBottle", RenderPerfumeBottleOps>>,
     <<"RenderItinerary", RenderItineraryOps>>,
     <<"RenderNecklaceBox", RenderNecklaceBoxOps>>,
     <<"RenderRingBox", RenderRingBoxOps>>,
     <<"RenderEarrings", RenderEarringsOps>>,
     <<"RenderWhiteVowBook", RenderWhiteVowBookOps>>,
     <<"RenderBrownVowBook", RenderBrownVowBookOps>> >>

RECURSIVE RenderObjects(_, _, _)
RenderObjects(s, i, indeterminate) ==
  IF i > Len(SceneObjects) THEN s
  ELSE LET s1 == RenderObject(s, SceneObjects[i][1], SceneObjects[i][2], indeterminate)
       IN IF s1.crashed THEN s1 ELSE RenderObjects(s1, i + 1, indeterminate)

RenderSceneOp(s, indeterminate) ==
  IF s.crashed THEN s
  ELSE RenderObjects([Called(s, "RenderScene") EXCEPT !.drawLog = <<>>], 1, indeterminate)

----------------------------------------------------------------------------
(* Construction *)

\* The image files as the process finds them; they do not change while it
\* runs. Every scene file decodes to RGB.
CallDisk ==
  [f \in Files |->
     IF f = RgbaFile THEN 4
     ELSE IF f = GrayFile THEN 1
     ELSE IF f = MissingFile THEN NoImage
     ELSE 3]

\* Every subset of the scene files failing, as undecodable files among RGB
\* ones or as single-channel files among RGBA ones.
SceneDisks ==
  {[f \in Files |-> IF f \in SceneFiles THEN d[f] ELSE CallDisk[f]] :
     d \in [SceneFiles -> {NoImage, 3}] \cup [SceneFiles -> {1, 4}]}

\* The object after SceneManager(pShaderManager), on a given disk.
Constructed(pShaderManager, disks) ==
  /\ m_pShaderManager = pShaderManager
  /\ nullCalls \in (IF pShaderManager = NULL THEN NullCallOutcomes ELSE {"crash"})
  /\ m_loadedTextures = 0
  /\ m_textureIDs = [i \in 0..(MaxSlots - 1) |-> EmptySlot]
  /\ overrun = <<>>
  /\ m_objectMaterials = <<>>
  /\ shader = NoUniforms
  /\ meshLoads = <<>>
  /\ glTextures = {}
  /\ glNextName = 1
  /\ glActiveUnit = 0
  /\ glBoundUnits = (0 :> 0)
  /\ disk \in disks
  /\ crashed = FALSE
  /\ trace = <<>>
  /\ decodes = 0
  /\ drawLog = <<>>
  /\ shaderLog = <<>>
  /\ ret = FALSE
  /\ last = Last("SceneManager", "", "", -1)
  /\ calls = 0

Init == Constructed(ShaderManager, {CallDisk})

----------------------------------------------------------------------------
(* The handlers of the texture table *)

Running == ~crashed
Budget == calls < MaxCalls

CreateGLTexture(filename, tag) ==
  /\ Running /\ Budget
  /\ \E ub \in UBOutcomes : Commit(CreateGLTextureOp(Entry, filename, tag, ub))
  /\ last' = Last("CreateGLTexture", filename, tag, -1)
  /\ calls' = calls + 1

BindGLTextures ==
  /\ Running
  /\ Commit(BindGLTexturesOp(Entry))
  /\ last' = Last("BindGLTextures", "", "", -1)
  /\ UNCHANGED calls

DestroyGLTextures ==
  /\ Running /\ Budget
  /\ \E ub \in UBOutcomes : Commit(DestroyGLTexturesOp(Entry, ub))
  /\ last' = Last("DestroyGLTextures", "", "", -1)
  /\ calls' = calls + 1

FindTextureSlotCall(tag) ==
  /\ Running
  /\ Commit(Called(Entry, "FindTextureSlot"))
  /\ last' = Last("FindTextureSlot", "", tag, FindTextureSlot(State, tag))
  /\ UNCHANGED calls

LoadSceneTextures ==
  /\ Running /\ Budget
  /\ \E ub \in UBOutcomes : Commit(LoadSceneTexturesOp(Entry, ub))
  /\ last' = Last("LoadSceneTextures", "", "", -1)
  /\ calls' = calls + 1

PrepareScene ==
  /\ Running /\ Budget
  /\ \E ub \in UBOutcomes : Commit(PrepareSceneOp(Entry, ub))
  /\ last' = Last("PrepareScene", "", "", -1)
  /\ calls' = calls + 1

Next ==
  \/ \E args \in CallArgs : CreateGLTexture(args[1], args[2])
  \/ BindGLTextures
  \/ DestroyGLTextures
  \/ \E tag \in FindTags : FindTextureSlotCall(tag)
  \/ LoadSceneTextures
  \/ PrepareScene

Spec == Init /\ [][Next]_vars

\* LoadSceneTextures alone, on every disk of SceneDisks.
InitLoad == Constructed(ShaderManager, SceneDisks)

NextLoad == LoadSceneTextures

SpecLoad == InitLoad /\ [][NextLoad]_vars

----------------------------------------------------------------------------
(* Claims about the texture table *)

\* The image of a file decodes and has three or four channels.
Loadable(filename) == disk[filename] \in {3, 4}

\* C2: a CreateGLTexture call on a file that cannot be decoded, or that decodes
\* with a channel count other than 3 or 4, returns false, leaves the texture
\* table and the loaded-texture count exactly as they were, and reads the file
\* once (no retry).
C2_FailedLoadIsSkipped ==
  [][ (last'.op = "CreateGLTexture" /\ ~crashed' /\
       (~Loadable(last'.file) \/ ret' = FALSE))
      => /\ ~Loadable(last'.file)
         /\ ret' = FALSE
         /\ m_textureIDs' = m_textureIDs
         /\ overrun' = overrun
         /\ m_loadedTextures' = m_loadedTextures
         /\ decodes' = 1 ]_vars

\* C2's case: a load of a single-channel image failed on a table that already
\* holds textures.
C2_Witness ==
  /\ last.op = "CreateGLTexture"
  /\ ret = FALSE
  /\ disk[last.file] = 1
  /\ m_loadedTextures > 0
  /\ ~crashed

\* C3: a CreateGLTexture call on a loadable file, with n the loaded-texture
\* count before it, returns true, stores the new GL texture ID and the tag in
\* entry n of the table, makes the count n + 1 and leaves entries 0..n-1 alone.
C3_SuccessfulLoadAppends ==
  [][ (last'.op = "CreateGLTexture" /\ Loadable(last'.file))
      => /\ ~crashed'
         /\ ret' = TRUE
         /\ m_loadedTextures' = m_loadedTextures + 1
         /\ m_loadedTextures \in DOMAIN m_textureIDs'
         /\ m_textureIDs'[m_loadedTextures].tag = last'.tag
         /\ m_textureIDs'[m_loadedTextures].ID \in glTextures' \ glTextures
         /\ \A i \in 0..(m_loadedTextures - 1) :
               i \in DOMAIN m_textureIDs /\ m_textureIDs'[i] = m_textureIDs[i] ]_vars

\* The lowest index below the loaded-texture count whose entry has the tag,
\* -1 when there is none: FindTextureSlot's contract, stated without the loop.
LowestSlot(tag) ==
  LET hits == {i \in 0..(m_loadedTextures - 1) : TextureInfo(State, i).tag = tag}
  IN IF hits = {} THEN -1 ELSE CHOOSE i \in hits : \A j \in hits : i <= j

\* C4: FindTextureSlot(tag) returns the smallest index below the loaded-texture
\* count whose entry has the tag, -1 exactly when no loaded entry has it, and
\* changes neither the table nor the count.
C4_FindTextureSlotLowest ==
  [][ last'.op = "FindTextureSlot"
      => /\ last'.slot = LowestSlot(last'.tag)
         /\ (last'.slot = -1) <=>
              (\A i \in 0..(m_loadedTextures - 1) :
                  TextureInfo(State, i).tag # last'.tag)
         /\ m_textureIDs' = m_textureIDs
         /\ overrun' = overrun
         /\ m_loadedTextures' = m_loadedTextures ]_vars

\* C4's case: the tag asked for is registered twice, and the lower slot is
\* returned.
C4_Witness ==
  /\ last.op = "FindTextureSlot"
  /\ last.slot >= 0
  /\ \E j \in (last.slot + 1)..(m_loadedTextures - 1) :
        TextureInfo(State, j).tag = last.tag

\* C5: the loaded-texture count never exceeds the MaxSlots texture slots, and
\* nothing is stored at index MaxSlots or above.
C5_AtMostSixteenTextures ==
  /\ m_loadedTextures <= MaxSlots
  /\ overrun = <<>>

\* The scene textures whose files load, in call order.
LoadableSceneTexture(pair) == Loadable(pair[1])
LoadedSceneTextures == SelectSeq(SceneTextures, LoadableSceneTexture)

\* C8: LoadSceneTextures on an empty table, whichever files fail, leaves the
\* tags of the files that loaded, in call order, in slots 0.., makes all
\* twelve loads, and calls BindGLTextures once, after the last load.
C8_FailedLoadDoesNotStopTheRest ==
  [][ (last'.op = "LoadSceneTextures" /\ m_loadedTextures = 0)
      => /\ ~crashed'
         /\ m_loadedTextures' = Len(LoadedSceneTextures)
         /\ \A i \in 1..Len(LoadedSceneTextures) :
               m_textureIDs'[i - 1].tag = LoadedSceneTextures[i][2]
         /\ \A i \in Len(LoadedSceneTextures)..(MaxSlots - 1) :
               m_textureIDs'[i] = m_textureIDs[i]
         /\ overrun' = overrun
         /\ decodes' = Len(SceneTextures)
         /\ Len(trace') = Len(SceneTextures) + 2
         /\ trace'[Len(trace')] = "BindGLTextures"
         /\ \A k \in 2..(Len(trace') - 1) : trace'[k] = "CreateGLTexture" ]_vars

\* C8's case: the first file and some later file failed, a file between them
\* and the last file loaded.
C8_Witness ==
  /\ last.op = "LoadSceneTextures"
  /\ calls = 1
  /\ ~Loadable("textures/marble.jpg")
  /\ Loadable("textures/gold.jpg")
  /\ ~Loadable("textures/perfume.jpg")
  /\ Loadable("textures/chain.jpg")
  /\ m_loadedTextures > 0
  /\ m_textureIDs[0].tag = "gold"

\* C9: after DestroyGLTextures every GL texture that was registered in slots
\* 0..count-1 has been released.
C9_DestroyReleasesTextures ==
  [][ (last'.op = "DestroyGLTextures" /\ ~crashed')
      => \A i \in 0..(m_loadedTextures - 1) :
            TextureInfo(State, i).ID \notin glTextures' ]_vars

\* Every registered tag's slot (what FindTextureSlot returns for it) is a
\* texture unit holding the GL texture ID registered first under the tag.
TexturesOnTheirUnits(s) ==
  \A i \in 0..(s.m_loadedTextures - 1) :
     LET slot == FindTextureSlot(s, TextureInfo(s, i).tag)
     IN /\ slot \in DOMAIN s.glBoundUnits
        /\ s.glBoundUnits[slot] = TextureInfo(s, slot).ID

\* C11: after BindGLTextures (called alone, or at the end of
\* LoadSceneTextures), and from then on as long as no CreateGLTexture is
\* called, the slot FindTextureSlot returns for a registered tag is the
\* texture unit bound to the GL texture ID registered first under that tag.
C11_TexturesOnTheirUnits ==
  [][ (/\ ~crashed'
       /\ \/ last'.op \in {"BindGLTextures", "LoadSceneTextures", "PrepareScene"}
          \/ /\ TexturesOnTheirUnits(State)
             /\ last'.op # "CreateGLTexture")
      => TexturesOnTheirUnits(State)' ]_vars

----------------------------------------------------------------------------
(* The handlers of the shader state *)

\* The material tags SetShaderMaterial is called with: three presets and a tag
\* no preset has.
MaterialTags == {"metal", "felt", "leather", "wood"}

\* The colours SetShaderColor is called with.
Colors == {<<1000, 0, 0, 1000>>, <<120, 210, 180, 1000>>}

\* The scales SetTextureUVScale is called with.
UVScales == {<<1000, 1000>>, <<2250, 1000>>}

\* The tags SetShaderTexture is called with.
TextureTags == {"marble", "logo"}

DefineObjectMaterials ==
  /\ Running /\ Budget
  /\ Commit(DefineObjectMaterialsOp(Entry))
  /\ last' = Last("DefineObjectMaterials", "", "", -1)
  /\ calls' = calls + 1

SetShaderMaterial(materialTag) ==
  /\ Running
  /\ \E indeterminate \in IndeterminateMaterials :
        Commit(SetShaderMaterialOp(Entry, materialTag, indeterminate))
  /\ last' = Last("SetShaderMaterial", "", materialTag, -1)
  /\ UNCHANGED calls

\* FindMaterial(tag, material) called on a material the caller holds: last
\* keeps the material before and after the call.
FindMaterialCall(tag, material) ==
  /\ Running
  /\ LET found == FindMaterial(Entry, tag, material)
     IN /\ Commit([Called(Entry, "FindMaterial") EXCEPT !.ret = found[1]])
        /\ last' = [op |-> "FindMaterial", file |-> "", tag |-> tag, slot |-> -1,
                    args |-> <<material, found[2]>>]
  /\ UNCHANGED calls

SetShaderColor(color) ==
  /\ Running
  /\ Commit(SetShaderColorOp(Entry, color[1], color[2], color[3], color[4]))
  /\ last' = LastArgs("SetShaderColor", color)
  /\ UNCHANGED calls

SetShaderTexture(textureTag) ==
  /\ Running
  /\ Commit(SetShaderTextureOp(Entry, textureTag))
  /\ last' = Last("SetShaderTexture", "", textureTag, -1)
  /\ UNCHANGED calls

SetTextureUVScale(uv) ==
  /\ Running
  /\ Commit(SetTextureUVScaleOp(Entry, uv[1], uv[2]))
  /\ last' = LastArgs("SetTextureUVScale", uv)
  /\ UNCHANGED calls

SetupSceneLights ==
  /\ Running
  /\ Commit(SetupSceneLightsOp(Entry))
  /\ last' = Last("SetupSceneLights", "", "", -1)
  /\ UNCHANGED calls

InitShader == Constructed(ShaderManager, {CallDisk})

NextShader ==
  \/ DefineObjectMaterials
  \/ \E materialTag \in MaterialTags : SetShaderMaterial(materialTag)
  \/ \E color \in Colors : SetShaderColor(color)
  \/ \E textureTag \in TextureTags : SetShaderTexture(textureTag)
  \/ \E uv \in UVScales : SetTextureUVScale(uv)
  \/ SetupSceneLights
  \/ LoadSceneTextures

SpecShader == InitShader /\ [][NextShader]_vars

\* The materials list and its lookups alone.
InitMaterial == Constructed(ShaderManager, {CallDisk})

NextMaterial ==
  \/ DefineObjectMaterials
  \/ \E tag \in MaterialTags, material \in IndeterminateMaterials :
        FindMaterialCall(tag, material)
  \/ \E materialTag \in MaterialTags : SetShaderMaterial(materialTag)

SpecMaterial == InitMaterial /\ [][NextMaterial]_vars

----------------------------------------------------------------------------
(* Claims about the shader state *)

\* C1: SetShaderMaterial with a tag no entry of the materials list has (the
\* list empty or not) leaves every uniform of the shader as it was.
C1_FailedLookupLeavesShader ==
  [][ (last'.op = "SetShaderMaterial" /\
       \A i \in 1..Len(m_objectMaterials) : m_objectMaterials[i].tag # last'.tag)
      => shader' = shader ]_vars

\* The entries of the materials list that have the tag.
MaterialsTagged(tag) ==
  {i \in 1..Len(m_objectMaterials) : m_objectMaterials[i].tag = tag}

\* C12: FindMaterial(tag, material) returns true exactly when the materials
\* list holds an entry with the tag, and then the output holds the diffuse
\* colour, specular colour and shininess of the first such entry; when no
\* entry has the tag it returns false and the output is as it was.
C12_FindMaterialReportsTheLookup ==
  [][ last'.op = "FindMaterial"
      => LET hits == MaterialsTagged(last'.tag)
             before == last'.args[1]
             after == last'.args[2]
         IN /\ ret' = (hits # {})
            /\ hits # {} =>
                 LET first == m_objectMaterials[CHOOSE i \in hits : \A j \in hits : i <= j]
                 IN /\ after.diffuseColor = first.diffuseColor
                    /\ after.specularColor = first.specularColor
                    /\ after.shininess = first.shininess
            /\ hits = {} => after = before ]_vars

\* The lights whose bActive uniform is true.
ActiveLights(sh) ==
  {n[1] : n \in {u \in DOMAIN sh : Len(u) = 2 /\ u[2] = "bActive" /\ sh[u] = <<1>>}}

\* C7: when SetupSceneLights returns, bUseLighting is true and the lights
\* whose bActive flag is true are exactly pointLights[0] and spotLight: no
\* directional light and no other point light is active.
C7_TwoLightsConfigured ==
  [][ (last'.op = "SetupSceneLights" /\ ~crashed')
      => /\ Uniform(shader', g_UseLightingName) = <<1>>
         /\ ActiveLights(shader') = {"pointLights[0]", "spotLight"}
         /\ Cardinality(ActiveLights(shader')) <= 2 ]_vars

\* C7's case: SetupSceneLights has run on a shader whose lights were all off.
C7_Witness ==
  /\ last.op = "SetupSceneLights"
  /\ ~crashed
  /\ <<"spotLight", "bActive">> \in DOMAIN shader

----------------------------------------------------------------------------
(* SetTransformations on quarter turns, where the fixed point is exact *)

TransformScales == {<<1000, 1000, 1000>>, <<2000, 3000, 5000>>}
TransformDegrees == {0, 90000, -90000, 180000}
TransformPositions == {<<0, 0, 0>>, <<1000, -2000, 3000>>}

SetTransformations(scaleXYZ, XrotationDegrees, YrotationDegrees, ZrotationDegrees, positionXYZ) ==
  /\ Running
  /\ Commit(SetTransformationsOp(Entry, scaleXYZ, XrotationDegrees, YrotationDegrees,
                                 ZrotationDegrees, positionXYZ))
  /\ last' = LastArgs("SetTransformations",
                      scaleXYZ \o <<XrotationDegrees, YrotationDegrees, ZrotationDegrees>>
                        \o positionXYZ)
  /\ UNCHANGED calls

InitTransform == Constructed(ShaderManager, {CallDisk})

NextTransform ==
  \E scaleXYZ \in TransformScales, x \in TransformDegrees, y \in TransformDegrees,
     z \in TransformDegrees, positionXYZ \in TransformPositions :
    SetTransformations(scaleXYZ, x, y, z, positionXYZ)

SpecTransform == InitTransform /\ [][NextTransform]_vars

\* The five transformations applied to a point <<x, y, z>>, one after the
\* other, as plain coordinate arithmetic.
ScalePoint(p, scaleXYZ) ==
  <<(p[1] * scaleXYZ[1]) \div One, (p[2] * scaleXYZ[2]) \div One,
    (p[3] * scaleXYZ[3]) \div One>>
TurnAboutX(p, d) ==
  <<p[1], (p[2] * Cos(d) - p[3] * Sin(d)) \div One,
          (p[2] * Sin(d) + p[3] * Cos(d)) \div One>>
TurnAboutY(p, d) ==
  <<(p[1] * Cos(d) + p[3] * Sin(d)) \div One, p[2],
    (p[3] * Cos(d) - p[1] * Sin(d)) \div One>>
TurnAboutZ(p, d) ==
  <<(p[1] * Cos(d) - p[2] * Sin(d)) \div One,
    (p[1] * Sin(d) + p[2] * Cos(d)) \div One, p[3]>>
MovePoint(p, positionXYZ) ==
  <<p[1] + positionXYZ[1], p[2] + positionXYZ[2], p[3] + positionXYZ[3]>>

\* A matrix applied to the point <<x, y, z, 1>>.
MatApplyRow(m, p, i) ==
  (m[i][1] * p[1] + m[i][2] * p[2] + m[i][3] * p[3]) \div One + m[i][4]
MatApply(m, p) == <<MatApplyRow(m, p, 1), MatApplyRow(m, p, 2), MatApplyRow(m, p, 3)>>

\* The origin, the three unit points and a point off every axis.
ProbePoints ==
  {<<0, 0, 0>>, <<1000, 0, 0>>, <<0, 1000, 0>>, <<0, 0, 1000>>, <<1000, 2000, 3000>>}

\* C6: after SetTransformations(scale, xDeg, yDeg, zDeg, position) the "model"
\* uniform is the matrix that scales a point, then turns it about X, then
\* about Y, then about Z, then moves it by position, that is
\* translation x rotationZ x rotationY x rotationX x scale, whatever the
\* earlier calls were.
C6_ModelIsTRzRyRxS ==
  last.op = "SetTransformations" =>
    LET m == Uniform(shader, g_ModelName)
        a == last.args
    IN /\ m # <<>>
       /\ m[4] = <<0, 0, 0, One>>
       /\ \A p \in ProbePoints :
             MatApply(m, p) =
               MovePoint(
                 TurnAboutZ(
                   TurnAboutY(
                     TurnAboutX(ScalePoint(p, SubSeq(a, 1, 3)), a[4]),
                     a[5]),
                   a[6]),
                 SubSeq(a, 7, 9))

\* C6's case: a call with an uneven scale, a turn about each axis and a move.
C6_Witness ==
  /\ last.op = "SetTransformations"
  /\ last.args = <<2000, 3000, 5000, 90000, -90000, 180000, 1000, -2000, 3000>>

----------------------------------------------------------------------------
(* The render pass on tables and materials lists of every kind *)

\* Disks on which some of the scene files the render pass uses do not load.
RenderDisks ==
  {[f \in Files |-> IF f \in DOMAIN d THEN d[f] ELSE CallDisk[f]] :
     d \in [{"textures/marble.jpg", "textures/chain.jpg"} -> {NoImage, 3}]}

RenderScene ==
  /\ Running
  /\ \E indeterminate \in IndeterminateMaterials :
        Commit(RenderSceneOp(Entry, indeterminate))
  /\ last' = Last("RenderScene", "", "", -1)
  /\ UNCHANGED calls

InitRender == Constructed(ShaderManager, RenderDisks)

NextRender ==
  \/ RenderScene
  \/ LoadSceneTextures
  \/ DefineObjectMaterials
  \/ PrepareScene

SpecRender == InitRender /\ [][NextRender]_vars

\* The objects of the draw log, each once per run of consecutive draws.
RECURSIVE ObjectRuns(_, _)
ObjectRuns(log, i) ==
  IF i > Len(log) THEN <<>>
  ELSE IF i > 1 /\ log[i].object = log[i - 1].object THEN ObjectRuns(log, i + 1)
  ELSE <<log[i].object>> \o ObjectRuns(log, i + 1)

\* The draw calls a Render* method holds, in order.
IsDraw(call) ==
  call.op \notin {"SetTransformations", "SetShaderTexture", "SetShaderMaterial",
                  "SetShaderColor", "SetTextureUVScale"}
DrawsOf(callList) == SelectSeq(callList, IsDraw)

SceneDraws ==
  DrawsOf(RenderTableOps) \o DrawsOf(RenderCologneBottleOps)
    \o DrawsOf(RenderPerfumeBottleOps) \o DrawsOf(RenderItineraryOps)
    \o DrawsOf(RenderNecklaceBoxOps) \o DrawsOf(RenderRingBoxOps)
    \o DrawsOf(RenderEarringsOps) \o DrawsOf(RenderWhiteVowBookOps)
    \o DrawsOf(RenderBrownVowBookOps)

\* C10: every RenderScene draws the table, the cologne bottle, the perfume
\* bottle, the itinerary, the necklace box, the ring box, the earrings, the
\* white vow book and the brown vow book, in this order and each once, and its
\* draw calls (mesh and order) are the same whatever the texture table and the
\* materials list hold.
C10_FixedDrawSequence ==
  last.op = "RenderScene" =>
    /\ ObjectRuns(drawLog, 1) =
         << "RenderTable", "RenderCologneBottle", "RenderPerfumeBottle",
            "RenderItinerary", "RenderNecklaceBox", "RenderRingBox",
            "RenderEarrings", "RenderWhiteVowBook", "RenderBrownVowBook" >>
    /\ Len(drawLog) = Len(SceneDraws)
    /\ \A i \in 1..Len(drawLog) :
          /\ drawLog[i].mesh = SceneDraws[i].op
          /\ drawLog[i].part = SceneDraws[i].part
          /\ drawLog[i].line = SceneDraws[i].line

\* C10's case: a render pass with textures missing from the table and an
\* empty materials list.
C10_Witness ==
  /\ last.op = "RenderScene"
  /\ m_objectMaterials = <<>>
  /\ m_loadedTextures > 0
  /\ FindTextureSlot(State, "marble") = -1
  /\ Len(drawLog) > 0

----------------------------------------------------------------------------
(* The render pass: what its lookups find *)

\* The set*Value calls of the last handler that set the named uniform.
IsSamplerCall(entry) == entry.name = g_TextureValueName
SamplerCalls == SelectSeq(shaderLog, IsSamplerCall)

IsTextureOp(call) == call.op = "SetShaderTexture"

\* The calls of the nine Render* methods, in RenderScene's order.
SceneOps ==
  RenderTableOps \o RenderCologneBottleOps \o RenderPerfumeBottleOps
    \o RenderItineraryOps \o RenderNecklaceBoxOps \o RenderRingBoxOps
    \o RenderEarringsOps \o RenderWhiteVowBookOps \o RenderBrownVowBookOps

\* Every load of LoadSceneTextures succeeds, and LoadSceneTextures has run.
AllSceneTexturesLoaded ==
  /\ \A i \in 1..Len(SceneTextures) : Loadable(SceneTextures[i][1])
  /\ m_loadedTextures >= Len(SceneTextures)

\* C13: when all the loads of LoadSceneTextures succeeded, every
\* SetShaderTexture call of a RenderScene passes the slot of a registered
\* texture as the sampler value, never -1.
C13_RenderTexturesAreRegistered ==
  (last.op = "RenderScene" /\ AllSceneTexturesLoaded)
    => /\ Len(SamplerCalls) = Len(SelectSeq(SceneOps, IsTextureOp))
       /\ \A k \in 1..Len(SamplerCalls) :
             /\ SamplerCalls[k].value # <<-1>>
             /\ SamplerCalls[k].value[1] \in 0..(m_loadedTextures - 1)

\* C13's case: a render pass after one LoadSceneTextures that loaded all
\* twelve images; the chain boxes got the last slot.
C13_Witness ==
  /\ last.op = "RenderScene"
  /\ AllSceneTexturesLoaded
  /\ m_loadedTextures = Len(SceneTextures)
  /\ \E k \in 1..Len(SamplerCalls) :
        SamplerCalls[k].value = <<Len(SceneTextures) - 1>>

\* The set*Value calls of the last handler on the three material uniforms.
IsDiffuseCall(entry) == entry.name = <<"material", "diffuseColor">>
IsSpecularCall(entry) == entry.name = <<"material", "specularColor">>
IsShininessCall(entry) == entry.name = <<"material", "shininess">>

IsMaterialOp(call) == call.op = "SetShaderMaterial"
SceneMaterialOps == SelectSeq(SceneOps, IsMaterialOp)

\* C14: once the materials are defined (PrepareScene has run), every
\* SetShaderMaterial call of a RenderScene names a material of the list (one
\* of metal, glass, marble, felt, leather) and sets material.diffuseColor,
\* material.specularColor and material.shininess to the values of the first
\* entry with that tag.
C14_RenderMaterialsAreDefined ==
  (last.op = "RenderScene" /\ Len(m_objectMaterials) > 0)
    => LET diffuse == SelectSeq(shaderLog, IsDiffuseCall)
           specular == SelectSeq(shaderLog, IsSpecularCall)
           shininess == SelectSeq(shaderLog, IsShininessCall)
       IN /\ Len(diffuse) = Len(SceneMaterialOps)
          /\ Len(specular) = Len(SceneMaterialOps)
          /\ Len(shininess) = Len(SceneMaterialOps)
          /\ \A k \in 1..Len(SceneMaterialOps) :
                LET hits == MaterialsTagged(SceneMaterialOps[k].tag)
                IN /\ SceneMaterialOps[k].tag \in
                        {"metal", "glass", "marble", "felt", "leather"}
                   /\ hits # {}
                   /\ \E i \in hits :
                        /\ \A j \in hits : i <= j
                        /\ diffuse[k].value = m_objectMaterials[i].diffuseColor
                        /\ specular[k].value = m_objectMaterials[i].specularColor
                        /\ shininess[k].value = <<m_objectMaterials[i].shininess>>

\* C14's case: a render pass after a PrepareScene, with the felt preset in use.
C14_Witness ==
  /\ last.op = "RenderScene"
  /\ Len(m_objectMaterials) > 0
  /\ meshLoads # <<>>
  /\ \E k \in 1..Len(shaderLog) :
        IsDiffuseCall(shaderLog[k]) /\ shaderLog[k].value = <<100, 100, 100>>

----------------------------------------------------------------------------
(* The meshes *)

\* The Load*Mesh methods of ShapeMeshes the program calls.
IsMeshLoad(name) ==
  name \in {"LoadBoxMesh", "LoadPlaneMesh", "LoadCylinderMesh", "LoadConeMesh",
            "LoadPrismMesh", "LoadPyramid4Mesh", "LoadSphereMesh",
            "LoadTaperedCylinderMesh", "LoadTorusMesh", "LoadHexagonMesh"}

\* The mesh a Draw*Mesh method draws, named by the method that loads it: a
\* box side is drawn from the box mesh, a half-sphere from the sphere mesh.
MeshLoadedFor(draw) ==
  CASE draw = "DrawBoxMesh" -> "LoadBoxMesh"
    [] draw = "DrawBoxMeshSide" -> "LoadBoxMesh"
    [] draw = "DrawPlaneMesh" -> "LoadPlaneMesh"
    [] draw = "DrawCylinderMesh" -> "LoadCylinderMesh"
    [] draw = "DrawSphereMesh" -> "LoadSphereMesh"
    [] draw = "DrawHalfSphereMesh" -> "LoadSphereMesh"
    [] draw = "DrawTorusMesh" -> "LoadTorusMesh"
    [] draw = "DrawHexagonMesh" -> "LoadHexagonMesh"
    [] draw = "DrawPyramid4Mesh" -> "LoadPyramid4Mesh"
    [] OTHER -> "none"

Elements(seq) == {seq[i] : i \in 1..Len(seq)}

\* C15: a PrepareScene call loads each mesh kind once, and among them the
\* mesh of every draw call RenderScene makes (a box side counted as the box, a
\* half-sphere as the sphere); a RenderScene call loads no mesh, and once
\* PrepareScene has run every mesh it draws is loaded.
C15_MeshesLoadedOnceAndBeforeDrawn ==
  [][ /\ (last'.op = "PrepareScene" /\ ~crashed')
         => LET loads == SelectSeq(trace', IsMeshLoad)
            IN /\ Len(loads) > 0
               /\ \A i, j \in 1..Len(loads) : loads[i] = loads[j] => i = j
               /\ meshLoads' = meshLoads \o loads
               /\ \A k \in 1..Len(SceneDraws) :
                     MeshLoadedFor(SceneDraws[k].op) \in Elements(loads)
      /\ last'.op = "RenderScene"
         => /\ meshLoads' = meshLoads
            /\ SelectSeq(trace', IsMeshLoad) = <<>>
            /\ Len(drawLog') > 0
            /\ meshLoads # <<>> =>
                 \A i \in 1..Len(drawLog') :
                    MeshLoadedFor(drawLog'[i].mesh) \in Elements(meshLoads) ]_vars

\* C15's case: a render pass after PrepareScene that draws a half-sphere and a
\* box side.
C15_Witness ==
  /\ last.op = "RenderScene"
  /\ meshLoads # <<>>
  /\ \E i \in 1..Len(drawLog) : drawLog[i].mesh = "DrawHalfSphereMesh"
  /\ \E i \in 1..Len(drawLog) : drawLog[i].mesh = "DrawBoxMeshSide"

----------------------------------------------------------------------------
(* A SceneManager constructed with a null ShaderManager *)

InitNull == Constructed(NULL, {CallDisk})

NextNull ==
  \/ \E scaleXYZ \in TransformScales, positionXYZ \in TransformPositions :
        \E x, y, z \in TransformDegrees :
           SetTransformations(scaleXYZ, x, y, z, positionXYZ)
  \/ \E color \in Colors : SetShaderColor(color)
  \/ \E textureTag \in TextureTags : SetShaderTexture(textureTag)
  \/ \E uv \in UVScales : SetTextureUVScale(uv)
  \/ \E materialTag \in MaterialTags : SetShaderMaterial(materialTag)
  \/ SetupSceneLights
  \/ DefineObjectMaterials

SpecNull == InitNull /\ [][NextNull]_vars

\* C16: with a null shader manager, SetTransformations, SetShaderColor,
\* SetShaderTexture, SetTextureUVScale, SetShaderMaterial (the materials list
\* empty or not) and SetupSceneLights return without a call on the shader
\* manager.
C16_NullShaderManagerIsNeverCalled ==
  [][ (m_pShaderManager = NULL /\
       last'.op \in {"SetTransformations", "SetShaderColor", "SetShaderTexture",
                     "SetTextureUVScale", "SetShaderMaterial", "SetupSceneLights"})
      => ~crashed' /\ shaderLog' = <<>> ]_vars

----------------------------------------------------------------------------
(* The render pass: the order of the calls around a draw *)

RenderMethods == {SceneObjects[i][1] : i \in 1..Len(SceneObjects)}

\* The nearest call at or before position i of a trace that is a
\* SetTransformations call or the entry of a Render* method; 0 if none.
RECURSIVE NearestTransformOrEntry(_, _)
NearestTransformOrEntry(tr, i) ==
  IF i <= 0 THEN 0
  ELSE IF tr[i] = "SetTransformations" \/ tr[i] \in RenderMethods THEN i
  ELSE NearestTransformOrEntry(tr, i - 1)

\* C17: every draw call of a RenderScene has, before it and in the same
\* Render* method, a SetTransformations call, and between the last such call
\* and the draw at least one SetShaderTexture or SetShaderColor call.
C17_TransformThenSurfaceThenDraw ==
  last.op = "RenderScene"
    => /\ Len(drawLog) > 0
       /\ \A i \in 1..Len(drawLog) :
             LET d == drawLog[i].at
                 t == NearestTransformOrEntry(trace, d - 1)
             IN /\ trace[d] = drawLog[i].mesh
                /\ t > 0
                /\ trace[t] = "SetTransformations"
                /\ \E c \in (t + 1)..(d - 1) :
                      trace[c] \in {"SetShaderTexture", "SetShaderColor"}

\* C17's case: a render pass in which a draw shares its SetTransformations
\* call with the draw before it.
C17_Witness ==
  /\ last.op = "RenderScene"
  /\ \E i \in 2..Len(drawLog) :
        NearestTransformOrEntry(trace, drawLog[i].at - 1) < drawLog[i - 1].at

----------------------------------------------------------------------------
(* The render pass: colour or texture at each draw *)

IsColorOp(call) == call.op = "SetShaderColor"
SceneColorOps == SelectSeq(SceneOps, IsColorOp)

IsColorValueCall(entry) == entry.name = g_ColorValueName

\* The nearest call at or before position i of a trace that is a
\* SetShaderTexture or a SetShaderColor call; 0 if none.
RECURSIVE NearestSurface(_, _)
NearestSurface(tr, i) ==
  IF i <= 0 THEN 0
  ELSE IF tr[i] \in {"SetShaderTexture", "SetShaderColor"} THEN i
  ELSE NearestSurface(tr, i - 1)

\* The set*Value calls that call number c of the trace made.
CallsMadeBy(c) == {k \in 1..Len(shaderLog) : shaderLog[k].at = c}

\* C18: in a RenderScene, every SetShaderColor(r, g, b, a) call sets
\* bUseTexture to false and objectColor to (r, g, b, a) and no other uniform
\* (the model matrix, the UV scale, the sampler and the material uniforms keep
\* their values); every SetShaderTexture call sets bUseTexture to true and
\* besides it only the sampler; and each draw call is issued with bUseTexture
\* true exactly when the last of the two kinds of call before it was a
\* SetShaderTexture.
C18_ColorOrTextureAtEachDraw ==
  last.op = "RenderScene"
    => /\ \A c \in 1..Len(trace) :
             /\ trace[c] = "SetShaderColor"
                  => /\ Cardinality(CallsMadeBy(c)) = 2
                     /\ \E k \in CallsMadeBy(c) :
                           /\ shaderLog[k].name = g_UseTextureName
                           /\ shaderLog[k].value = <<0>>
                     /\ \E k \in CallsMadeBy(c) : shaderLog[k].name = g_ColorValueName
             /\ trace[c] = "SetShaderTexture"
                  => /\ Cardinality(CallsMadeBy(c)) = 2
                     /\ \E k \in CallsMadeBy(c) :
                           /\ shaderLog[k].name = g_UseTextureName
                           /\ shaderLog[k].value = <<1>>
                     /\ \E k \in CallsMadeBy(c) : shaderLog[k].name = g_TextureValueName
       /\ LET colors == SelectSeq(shaderLog, IsColorValueCall)
          IN /\ Len(colors) = Len(SceneColorOps)
             /\ \A k \in 1..Len(colors) : colors[k].value = SceneColorOps[k].args
       /\ \A i \in 1..Len(drawLog) :
             LET c == NearestSurface(trace, drawLog[i].at)
             IN /\ c > 0
                /\ (Uniform(drawLog[i].shader, g_UseTextureName) = <<1>>)
                     <=> (trace[c] = "SetShaderTexture")
                /\ (Uniform(drawLog[i].shader, g_UseTextureName) = <<0>>)
                     <=> (trace[c] = "SetShaderColor")

\* C18's case: a render pass with a draw in colour that follows a textured
\* draw.
C18_Witness ==
  /\ last.op = "RenderScene"
  /\ \E i \in 2..Len(drawLog) :
        /\ Uniform(drawLog[i].shader, g_UseTextureName) = <<0>>
        /\ Uniform(drawLog[i - 1].shader, g_UseTextureName) = <<1>>
        /\ Uniform(drawLog[i].shader, g_ColorValueName) = <<1000, 1000, 1000, 1000>>

----------------------------------------------------------------------------
(* The order of PrepareScene's steps *)

\* The positions of a call in a trace.
PositionsOf(tr, name) == {k \in 1..Len(tr) : tr[k] = name}

\* C19: a PrepareScene call runs LoadSceneTextures first (all its
\* CreateGLTexture calls, then BindGLTextures once), then
\* DefineObjectMaterials, then SetupSceneLights, then the mesh loads; no
\* CreateGLTexture follows BindGLTextures.
C19_PrepareSceneOrder ==
  [][ (last'.op = "PrepareScene" /\ ~crashed')
      => \E b \in PositionsOf(trace', "BindGLTextures") :
            /\ PositionsOf(trace', "BindGLTextures") = {b}
            /\ trace'[1] = "PrepareScene"
            /\ PositionsOf(trace', "LoadSceneTextures") = {2}
            /\ PositionsOf(trace', "CreateGLTexture") = 3..(b - 1)
            /\ b - 3 = Len(SceneTextures)
            /\ PositionsOf(trace', "DefineObjectMaterials") = {b + 1}
            /\ PositionsOf(trace', "SetupSceneLights") = {b + 2}
            /\ Len(trace') > b + 2
            /\ \A k \in (b + 3)..Len(trace') : IsMeshLoad(trace'[k])
            /\ \A k \in 1..(b + 2) : ~IsMeshLoad(trace'[k]) ]_vars

\* C19's case: a first PrepareScene that registered the twelve textures,
\* defined the materials, set the lights and loaded the meshes.
C19_Witness ==
  /\ last.op = "PrepareScene"
  /\ ~crashed
  /\ m_loadedTextures = Len(SceneTextures)
  /\ Len(m_objectMaterials) > 0
  /\ <<"spotLight", "bActive">> \in DOMAIN shader
  /\ meshLoads # <<>>

----------------------------------------------------------------------------
(* The render pass: the UV scale *)

UVScaleName == <<"UVscale">>

\* The draw calls of the six boxes of the necklace chain, by source line.
ChainBoxLines == {939, 951, 963, 975, 987, 999}

\* The nearest SetTextureUVScale call at or before position j of a list of
\* calls; 0 if none.
RECURSIVE NearestUVScaleOp(_, _)
NearestUVScaleOp(ops, j) ==
  IF j <= 0 THEN 0
  ELSE IF ops[j].op = "SetTextureUVScale" THEN j
  ELSE NearestUVScaleOp(ops, j - 1)

\* The scale the SetTextureUVScale call before the draw call of a source line
\* sets.
ScaleSetBefore(line) ==
  LET j == CHOOSE k \in 1..Len(SceneOps) : SceneOps[k].line = line
  IN SceneOps[NearestUVScaleOp(SceneOps, j)].args

\* A render pass that started on a shader an earlier pass left.
AfterEarlierPass ==
  Len(drawLog) > 0 /\ UVScaleName \in DOMAIN drawLog[1].shader

\* C20: when RenderScene ends, UVscale is (1, 1); each of the six chain boxes
\* is drawn with the scale set just before it, one of (1, 1), (2.25, 1) and
\* (0.5, 0.5); and from the second RenderScene on every other draw call is
\* issued with UVscale (1, 1).
C20_UVScaleRestored ==
  last.op = "RenderScene"
    => /\ Uniform(shader, UVScaleName) = <<1000, 1000>>
       /\ \A i \in 1..Len(drawLog) :
             IF drawLog[i].line \in ChainBoxLines
             THEN /\ Uniform(drawLog[i].shader, UVScaleName) =
                       ScaleSetBefore(drawLog[i].line)
                  /\ ScaleSetBefore(drawLog[i].line) \in
                       {<<1000, 1000>>, <<2250, 1000>>, <<500, 500>>}
             ELSE AfterEarlierPass =>
                    Uniform(drawLog[i].shader, UVScaleName) = <<1000, 1000>>
       /\ {drawLog[i].line : i \in 1..Len(drawLog)} \cap ChainBoxLines = ChainBoxLines

\* C20's case: a second render pass, whose first draw finds the scale the
\* first pass left and whose chain boxes are drawn at (0.5, 0.5).
C20_Witness ==
  /\ last.op = "RenderScene"
  /\ AfterEarlierPass
  /\ \E i \in 1..Len(drawLog) :
        /\ drawLog[i].line \in ChainBoxLines
        /\ Uniform(drawLog[i].shader, UVScaleName) = <<500, 500>>

====
